---- MODULE Spec2Model ----
(***************************************************************************)
(* classy_blocks: vertex assembly (VertexList.collect), the iterative      *)
(* optimizer (IterationDriver / Optimizer), the automatic grading policies *)
(* (ChopParams, InflationRules) and the topology queries of Block.         *)
(*                                                                         *)
(* Geometry lives on an integer lattice: a point is a triple of integers,  *)
(* f.norm(a - b) < constants.tol is compared on squared lengths.           *)
(* Python objects are cells of a heap (obj); a reference is an object id.  *)
(***************************************************************************)
EXTENDS Integers, Sequences, FiniteSets, TLC

VARIABLES
    \* ---- assembly ----
    blocks,          \* the block set as given: per block its 8 points and its patches
    merged_patches,  \* Mesh.merge_patches declarations: <<master, slave>> pairs
    obj,             \* heap of Vertex objects: [point, mesh_index]; mesh_index -1 = not set
    bv,              \* block.vertices: per block, 8 references into obj
    vertices,        \* VertexList.vertices: references into obj
    runs,            \* number of collect() calls made so far
    first,           \* corner indexes and vertex count recorded after the first collect()
    lastrun,         \* bookkeeping of the last collect(): length before / after its passes
    \* ---- optimizer ----
    position,        \* vertex.position of every mesh vertex (one junction per vertex)
    goal,            \* where the cells around a vertex are best shaped (decides Grid.quality)
    clamps,          \* Optimizer.clamps: the clamped vertices, in order of release_vertex
    params,          \* clamp.params of the clamp of each vertex
    driver,          \* IterationDriver: max_iterations, relaxed_iterations, tolerance
    iterations,      \* IterationDriver.iterations
    pc,              \* where optimize() is: idle, loop, iter, done, error
    queue,           \* junctions optimize_iteration has yet to visit
    start_quality,   \* Grid.quality when optimize() was called
    last,            \* what the last optimize_clamp saw and did
    \* ---- grading ----
    policy,          \* the grading policy object (ChopParams / InflationRules) and its fields
    the_block,       \* a Block: its 8 Vertex objects and its Edge objects
    answer,          \* the last call made on an object: arguments and result
    \* ---- construction ----
    operation,       \* an Operation: its faces' patch names, side patches and side edges
    data             \* a BlockData: its chops per axis

avars == <<blocks, merged_patches, obj, bv, vertices, runs, first, lastrun>>

ovars == <<position, goal, clamps, params, driver, iterations, pc, queue,
           start_quality, last>>

fvars == <<policy, the_block, answer, operation, data>>

vars == <<avars, ovars, fvars>>

----------------------------------------------------------------------------
(* Bounds of the model *)

UnitLen == 8        \* edge length of a block in lattice units
MaxJitter == 2      \* blocks are displaced by 0..MaxJitter lattice units in x
MaxBlocks == 3      \* number of blocks in a mesh
MaxRuns == 2        \* number of collect() calls
MaxParam == 2       \* clamp parameters range over 0..MaxParam (clamp.bounds)
MaxIterations == 3  \* max_iterations passed to optimize() is in 1..MaxIterations
MaxRelaxed == 2     \* relaxed_iterations passed to optimize() is in 0..MaxRelaxed
MaxLength == 100    \* wire lengths are 0..MaxLength, in units of a tenth
MaxCellSize == 3    \* cell sizes of a policy are 1..MaxCellSize, in the same units
MaxCount == 5       \* counts passed to get_chops are 0..MaxCount
MaxSize == 2        \* sizes of neighbouring wires are None or 0..MaxSize
MaxEdges == 2       \* a block has at most MaxEdges explicitly defined edges
MaxSides == 2       \* set_patch is given at most MaxSides sides
MaxFaces == 3       \* a sketch has 1..MaxFaces faces
MaxChops == 2       \* an axis has at most MaxChops chops
MaxBuilds == 2      \* a BlockData is built into at most MaxBuilds blocks
MaxDefs == 2        \* a block is given at most MaxDefs edge definitions
MantissaBits == 4   \* significant bits of a float

(* constants.tol, in lattice units *)
Tol == 2

----------------------------------------------------------------------------
(* Geometry *)

Norm2(a, b) ==
    (a[1] - b[1]) * (a[1] - b[1]) + (a[2] - b[2]) * (a[2] - b[2])
        + (a[3] - b[3]) * (a[3] - b[3])

\* f.norm(vertex.point - position) < constants.tol
WithinTol(a, b) == Norm2(a, b) < Tol * Tol

\* corner numbering of a hexahedron: bottom face 0..3, top face 4..7
\* (1-based here: corner i of the code is CornerOffsets[i + 1])
CornerOffsets ==
    << <<0, 0, 0>>, <<1, 0, 0>>, <<1, 1, 0>>, <<0, 1, 0>>,
       <<0, 0, 1>>, <<1, 0, 1>>, <<1, 1, 1>>, <<0, 1, 1>> >>

\* the cells blocks are placed in: the three cells of the test fixture
\* (fl/cl points 0..7) and one cell stacked on top of the first
CellList == << <<0, 0, 0>>, <<1, 0, 0>>, <<1, 1, 0>>, <<0, 0, 1>> >>

BlockPoints(cell, jitter) ==
    [i \in 1..8 |->
        << UnitLen * (cell[1] + CornerOffsets[i][1]) + jitter,
           UnitLen * (cell[2] + CornerOffsets[i][2]),
           UnitLen * (cell[3] + CornerOffsets[i][3]) >>]

Sides == <<"bottom", "top", "left", "right", "front", "back">>

SideSet == {Sides[k] : k \in 1..Len(Sides)}

\* c.FACE_MAP: local corner indexes (1-based) of each side
FACE_MAP ==
    [bottom |-> <<1, 2, 3, 4>>, top |-> <<5, 6, 7, 8>>,
     left |-> <<5, 1, 4, 8>>, right |-> <<6, 2, 3, 7>>,
     front |-> <<5, 6, 2, 1>>, back |-> <<8, 7, 3, 4>>]

\* block.get_side_indexes(side, local=True)
get_side_indexes(side) == FACE_MAP[side]

RECURSIVE SidesFrom(_, _, _)
SidesFrom(patches, patch, k) ==
    IF k > Len(Sides) THEN <<>>
    ELSE (IF patches[Sides[k]] = patch THEN <<Sides[k]>> ELSE <<>>)
            \o SidesFrom(patches, patch, k + 1)

\* block.get_patch_sides(patch): the sides of the block assigned to the patch
get_patch_sides(block, patch) == SidesFrom(block.patches, patch, 1)

\* patch in block.patches
HasPatch(block, patch) == \E s \in SideSet : block.patches[s] = patch

----------------------------------------------------------------------------
(* VertexList.find *)

RECURSIVE FindFrom(_, _, _, _)
FindFrom(vs, heap, location, k) ==
    IF k > Len(vs) THEN 0
    ELSE IF WithinTol(heap[vs[k]].point, location) THEN vs[k]
    ELSE FindFrom(vs, heap, location, k + 1)

\* the first registered vertex within tolerance of location; 0 stands for None
find(vs, heap, location) == FindFrom(vs, heap, location, 1)

----------------------------------------------------------------------------
(* VertexList.collect, first pass: lines 31-39 *)

CollectCornerAlwaysNew(st, b, i) ==
    LET v == st.bv[b][i]
    IN  [st EXCEPT !.obj[v].mesh_index = Len(st.vertices),
                   !.vertices = Append(@, v)]

CollectCorner(st, b, i) ==
    LET v == st.bv[b][i]
        found_vertex == find(st.vertices, st.obj, st.obj[v].point)
    IN  IF found_vertex = 0
        THEN [st EXCEPT !.obj[v].mesh_index = Len(st.vertices),
                        !.vertices = Append(@, v)]
        ELSE [st EXCEPT !.bv[b][i] = found_vertex]

RECURSIVE CollectFrom(_, _, _)
CollectFrom(st, b, i) ==
    IF b > Len(st.bv) THEN st
    ELSE IF i > 8 THEN CollectFrom(st, b + 1, 1)
    ELSE CollectFrom(CollectCorner(st, b, i), b, i + 1)

CollectBlocks(st) == CollectFrom(st, 1, 1)

----------------------------------------------------------------------------
(* VertexList.collect, merged patches pass: lines 41-64 *)

\* slave_patches = [mp[1] for mp in merged_patches]
slave_patches(mps) == [k \in 1..Len(mps) |-> mps[k][2]]

RECURSIVE FaceVisits(_, _, _)
FaceVisits(b, face_indexes, k) ==
    IF k > Len(face_indexes) THEN <<>>
    ELSE <<(<<b, face_indexes[k]>>)>> \o FaceVisits(b, face_indexes, k + 1)

RECURSIVE SideVisits(_, _, _)
SideVisits(b, patch_sides, k) ==
    IF k > Len(patch_sides) THEN <<>>
    ELSE FaceVisits(b, get_side_indexes(patch_sides[k]), 1)
            \o SideVisits(b, patch_sides, k + 1)

RECURSIVE BlockVisits(_, _, _)
BlockVisits(bs, patch, b) ==
    IF b > Len(bs) THEN <<>>
    ELSE (IF HasPatch(bs[b], patch)
          THEN SideVisits(b, get_patch_sides(bs[b], patch), 1)
          ELSE <<>>)
            \o BlockVisits(bs, patch, b + 1)

RECURSIVE PatchVisits(_, _, _)
PatchVisits(bs, patches, k) ==
    IF k > Len(patches) THEN <<>>
    ELSE BlockVisits(bs, patches[k], 1) \o PatchVisits(bs, patches, k + 1)

\* the <<block, corner>> pairs in the order the loops of lines 45-52 reach them
SlaveVisits(bs, mps) == PatchVisits(bs, slave_patches(mps), 1)

\* lines 53-64; duplicated_points is st.dup, a function on original indexes
DuplicateCorner(st, b, i) ==
    LET vertex == st.bv[b][i]
        mi == st.obj[vertex].mesh_index
    IN  IF mi \notin DOMAIN st.dup
        THEN LET new_vertex == Len(st.obj) + 1
             IN  [obj |-> Append(st.obj, [point |-> st.obj[vertex].point,
                                          mesh_index |-> Len(st.vertices)]),
                  vertices |-> Append(st.vertices, new_vertex),
                  bv |-> [st.bv EXCEPT ![b][i] = new_vertex],
                  dup |-> (mi :> new_vertex) @@ st.dup]
        ELSE [st EXCEPT !.bv[b][i] = st.dup[mi]]

RECURSIVE DuplicateFrom(_, _, _)
DuplicateFrom(st, visits, k) ==
    IF k > Len(visits) THEN st
    ELSE DuplicateFrom(DuplicateCorner(st, visits[k][1], visits[k][2]), visits, k + 1)

DuplicateSlaves(st, bs, mps) == DuplicateFrom(st, SlaveVisits(bs, mps), 1)

----------------------------------------------------------------------------
(* Rational numbers: <<numerator, denominator>>, denominator > 0, in lowest terms *)

Abs(x) == IF x < 0 THEN 0 - x ELSE x

RECURSIVE GCD(_, _)
GCD(a, b) == IF b = 0 THEN a ELSE GCD(b, a % b)

Frac(n, d) ==
    LET g == GCD(Abs(n), Abs(d))
        sgn == IF d < 0 THEN 0 - 1 ELSE 1
    IN  << (sgn * n) \div g, (sgn * d) \div g >>

FAdd(a, b) == Frac(a[1] * b[2] + b[1] * a[2], a[2] * b[2])
FSub(a, b) == Frac(a[1] * b[2] - b[1] * a[2], a[2] * b[2])
FMul(a, b) == Frac(a[1] * b[1], a[2] * b[2])
FDiv(a, b) == Frac(a[1] * b[2], a[2] * b[1])
FLess(a, b) == a[1] * b[2] < b[1] * a[2]
FMin(a, b) == IF FLess(b, a) THEN b ELSE a
FInt(n) == <<n, 1>>

----------------------------------------------------------------------------
(* Mesh, Grid and clamps *)

\* the vertices of the mesh: Grid keeps one junction for each
Vertices == {1, 2}

\* vertices that are in no junction of the grid; a clamp can still hold one
Detached == {3}

Clampable == Vertices \cup Detached

ParamSet == 0..MaxParam

\* clamp.function: the position the clamp of vertex v gives for a parameter
\* (a line clamp through the point v with direction 2)
position_function(v, p) == v + 2 * p

PositionSet == {position_function(v, p) : v \in Vertices, p \in ParamSet}

\* Junction.quality: the defect of the cells around one vertex
JunctionQuality(pos, g, v) == (pos[v] - g) * (pos[v] - g)

RECURSIVE SumQuality(_, _, _)
SumQuality(pos, g, S) ==
    IF S = {} THEN 0
    ELSE LET v == CHOOSE x \in S : TRUE
         IN  JunctionQuality(pos, g, v) + SumQuality(pos, g, S \ {v})

\* Grid.quality: the aggregate over all cells, lower is better
GridQuality(pos, g) == SumQuality(pos, g, Vertices)

\* ClampBase.update_params(params, relaxation): the parameters are stored and the
\* vertex moves to current * (1 - relaxation) + target * relaxation
update_params(st, v, new_params, relaxation) ==
    LET current == st.position[v]
        target == position_function(v, new_params)
        moved == (current * (relaxation[2] - relaxation[1]) + target * relaxation[1])
                    \div relaxation[2]
    IN  [position |-> [st.position EXCEPT ![v] = moved],
         params |-> [st.params EXCEPT ![v] = new_params]]

RECURSIVE OrderFrom(_, _, _)
OrderFrom(pos, g, S) ==
    IF S = {} THEN <<>>
    ELSE LET v == CHOOSE x \in S :
                    \A y \in S :
                        \/ JunctionQuality(pos, g, x) > JunctionQuality(pos, g, y)
                        \/ /\ JunctionQuality(pos, g, x) = JunctionQuality(pos, g, y)
                           /\ x <= y
         IN  <<v>> \o OrderFrom(pos, g, S \ {v})

\* Grid.get_ordered_junctions(): the junctions, worst first
get_ordered_junctions(pos, g) == OrderFrom(pos, g, Vertices)

----------------------------------------------------------------------------
(* IterationData and IterationDriver *)

\* util.constants.VBIG
VBIG == 1000000

INITIAL_RELAXATION == Frac(1, 2)

\* IterationData.improvement
improvement(it) == it.initial_quality - it.final_quality

next_relaxation_steep(its, relaxed_iterations) ==
    LET step == FDiv(FInt(1), FInt(relaxed_iterations))
        iteration == Len(its)
    IN  FMin(FInt(1), FAdd(INITIAL_RELAXATION, FMul(step, FInt(iteration))))

\* IterationDriver.next_relaxation (relaxed_iterations # 0)
next_relaxation(its, relaxed_iterations) ==
    LET step == FDiv(FSub(FInt(1), INITIAL_RELAXATION), FInt(relaxed_iterations))
        iteration == Len(its)
    IN  FMin(FInt(1), FAdd(INITIAL_RELAXATION, FMul(step, FInt(iteration))))

\* IterationDriver.initial_improvement
initial_improvement(its) == IF Len(its) < 1 THEN VBIG ELSE improvement(its[1])

\* IterationDriver.last_improvement
last_improvement(its) ==
    IF Len(its) < 2 THEN initial_improvement(its) ELSE improvement(its[Len(its)])

\* last / 0: ZeroDivisionError with Python floats ("raise"); with numpy floats the
\* quotient is nan or +-inf and only -inf is below tolerance * 0
DivisionByZero(last_imp) == {"raise", IF last_imp < 0 THEN "true" ELSE "false"}

converged_late_budget(its, d) ==
    IF Len(its) <= 1 THEN {"false"}
    ELSE IF Len(its) > d.max_iterations THEN {"true"}
    ELSE IF initial_improvement(its) = 0 THEN DivisionByZero(last_improvement(its))
    ELSE IF FLess(FDiv(FInt(last_improvement(its)), FInt(initial_improvement(its))),
                  FMul(d.tolerance, FInt(initial_improvement(its))))
         THEN {"true"} ELSE {"false"}

converged_plain_tolerance(its, d) ==
    IF Len(its) <= 1 THEN {"false"}
    ELSE IF Len(its) >= d.max_iterations THEN {"true"}
    ELSE IF initial_improvement(its) = 0 THEN DivisionByZero(last_improvement(its))
    ELSE IF FLess(FDiv(FInt(last_improvement(its)), FInt(initial_improvement(its))),
                  d.tolerance)
         THEN {"true"} ELSE {"false"}

\* IterationDriver.converged: the outcomes its evaluation can have
converged(its, d) ==
    IF Len(its) <= 1 THEN {"false"}
    ELSE IF Len(its) >= d.max_iterations THEN {"true"}
    ELSE IF initial_improvement(its) = 0 THEN DivisionByZero(last_improvement(its))
    ELSE IF FLess(FDiv(FInt(last_improvement(its)), FInt(initial_improvement(its))),
                  FMul(d.tolerance, FInt(initial_improvement(its))))
         THEN {"true"} ELSE {"false"}

----------------------------------------------------------------------------
(* Optimizer *)

Tolerances == {Frac(1, 10), Frac(1, 2)}

NoClamp == [kind |-> "none"]

\* a clamp is named by the vertex it holds; no vertex is numbered 0
NoClampError == 0

NoJunctionError == 0

\* is there a clamp on vertex v (clamp.vertex == junction.vertex)
HasClamp(cs, v) == \E k \in 1..Len(cs) : cs[k] = v

_get_clamp_first(cs, junction) ==
    IF cs = <<>> THEN NoClampError ELSE cs[1]

\* Optimizer._get_clamp(junction): the first clamp on the junction's vertex
_get_clamp(cs, junction) ==
    IF HasClamp(cs, junction)
    THEN cs[CHOOSE k \in 1..Len(cs) :
                cs[k] = junction /\ \A j \in 1..(k - 1) : cs[j] # junction]
    ELSE NoClampError

\* Optimizer._get_junction(clamp): the junction of the clamp's vertex
_get_junction(clamp) ==
    IF clamp \in Vertices THEN clamp ELSE NoJunctionError

optimize_clamp_no_rollback(st, v, relaxation, minimized) ==
    LET initial_grid_quality == GridQuality(st.position, st.goal)
        initial_params == st.params[v]
        m == update_params(st, v, minimized, FInt(1))
        current_grid_quality == GridQuality(m.position, st.goal)
        r == update_params(m, v, m.params[v], relaxation)
    IN  [position |-> r.position, params |-> r.params,
         seen |-> [kind |-> "commit", vertex |-> v,
                   initial_quality |-> initial_grid_quality,
                   initial_params |-> initial_params,
                   minimized_quality |-> current_grid_quality,
                   minimized_params |-> m.params[v],
                   final_quality |-> GridQuality(r.position, st.goal),
                   final_params |-> r.params[v],
                   update |-> <<m.params[v], relaxation>>]]

optimize_clamp_full_commit(st, v, relaxation, minimized) ==
    LET initial_grid_quality == GridQuality(st.position, st.goal)
        initial_params == st.params[v]
        m == update_params(st, v, minimized, FInt(1))
        current_grid_quality == GridQuality(m.position, st.goal)
        rollback == current_grid_quality > initial_grid_quality
        r == IF rollback
             THEN update_params(m, v, initial_params, FInt(1))
             ELSE update_params(m, v, m.params[v], FInt(1))
    IN  [position |-> r.position, params |-> r.params,
         seen |-> [kind |-> IF rollback THEN "rollback" ELSE "commit",
                   vertex |-> v,
                   initial_quality |-> initial_grid_quality,
                   initial_params |-> initial_params,
                   minimized_quality |-> current_grid_quality,
                   minimized_params |-> m.params[v],
                   final_quality |-> GridQuality(r.position, st.goal),
                   final_params |-> r.params[v],
                   update |-> IF rollback THEN <<initial_params, FInt(1)>>
                              ELSE <<m.params[v], FInt(1)>>]]

optimize_clamp_relaxed_rollback(st, v, relaxation, minimized) ==
    LET initial_grid_quality == GridQuality(st.position, st.goal)
        initial_params == st.params[v]
        m == update_params(st, v, minimized, FInt(1))
        current_grid_quality == GridQuality(m.position, st.goal)
        rollback == current_grid_quality > initial_grid_quality
        r == IF rollback
             THEN update_params(m, v, initial_params, relaxation)
             ELSE update_params(m, v, m.params[v], relaxation)
    IN  [position |-> r.position, params |-> r.params,
         seen |-> [kind |-> IF rollback THEN "rollback" ELSE "commit",
                   vertex |-> v,
                   initial_quality |-> initial_grid_quality,
                   initial_params |-> initial_params,
                   minimized_quality |-> current_grid_quality,
                   minimized_params |-> m.params[v],
                   final_quality |-> GridQuality(r.position, st.goal),
                   final_params |-> r.params[v],
                   update |-> IF rollback THEN <<initial_params, FInt(1)>>
                              ELSE <<m.params[v], relaxation>>]]

\* Optimizer.optimize_clamp(clamp, iteration); minimized is the parameter vector
\* of the last evaluation scipy.optimize.minimize made of fquality, which leaves
\* the clamp at those parameters
optimize_clamp(st, v, relaxation, minimized) ==
    LET initial_grid_quality == GridQuality(st.position, st.goal)
        initial_params == st.params[v]
        m == update_params(st, v, minimized, FInt(1))
        current_grid_quality == GridQuality(m.position, st.goal)
        rollback == current_grid_quality > initial_grid_quality
        r == IF rollback
             THEN update_params(m, v, initial_params, FInt(1))
             ELSE update_params(m, v, m.params[v], relaxation)
    IN  [position |-> r.position, params |-> r.params,
         seen |-> [kind |-> IF rollback THEN "rollback" ELSE "commit",
                   vertex |-> v,
                   initial_quality |-> initial_grid_quality,
                   initial_params |-> initial_params,
                   minimized_quality |-> current_grid_quality,
                   minimized_params |-> m.params[v],
                   final_quality |-> GridQuality(r.position, st.goal),
                   final_params |-> r.params[v],
                   update |-> IF rollback THEN <<initial_params, FInt(1)>>
                              ELSE <<m.params[v], relaxation>>]]

\* the optimizer before any use: no mesh to optimize
OptimizerUnused ==
    /\ position = [v \in Clampable |-> position_function(v, 0)]
    /\ goal = 0
    /\ clamps = <<>>
    /\ params = [v \in Clampable |-> 0]
    /\ driver = [max_iterations |-> 0, relaxed_iterations |-> 0, tolerance |-> FInt(0)]
    /\ iterations = <<>>
    /\ pc = "unused"
    /\ queue = <<>>
    /\ start_quality = 0
    /\ last = NoClamp

\* no grading policy made, nothing called
NoPolicy == [class |-> "none"]

NoAnswer == [op |-> "none"]

NoBlock == [vertices |-> <<>>, edges |-> <<>>]

NoOperation == [class |-> "none"]

NoData == [chops |-> <<>>]

ConstructUnused ==
    /\ operation = NoOperation
    /\ data = NoData

GradingUnused ==
    /\ policy = NoPolicy
    /\ the_block = NoBlock
    /\ answer = NoAnswer
    /\ ConstructUnused

AssemblyUnused ==
    /\ blocks = <<>>
    /\ merged_patches = <<>>
    /\ obj = <<>>
    /\ bv = <<>>
    /\ vertices = <<>>
    /\ runs = 0
    /\ first = [count |-> 0, indexes |-> <<>>]
    /\ lastrun = [before |-> 0, merged |-> 0, after |-> 0, originals |-> {}]

\* Optimizer(mesh): any positions of the mesh vertices, any best position, no
\* clamps yet
InitOptimizer ==
    /\ AssemblyUnused
    /\ GradingUnused
    /\ \E mesh \in [Vertices -> PositionSet] :
        position = [v \in Clampable |->
                        IF v \in Vertices THEN mesh[v] ELSE position_function(v, 0)]
    /\ goal \in PositionSet
    /\ clamps = <<>>
    /\ params = [v \in Clampable |-> 0]
    /\ driver = [max_iterations |-> 0, relaxed_iterations |-> 0, tolerance |-> FInt(0)]
    /\ iterations = <<>>
    /\ pc = "idle"
    /\ queue = <<>>
    /\ start_quality = 0
    /\ last = NoClamp

\* Optimizer.release_vertex(clamp): the clamp holds the parameters of its vertex
ReleaseVertex ==
    /\ pc = "idle"
    /\ \E v \in Vertices, p \in ParamSet :
        /\ ~HasClamp(clamps, v)
        /\ position_function(v, p) = position[v]
        /\ clamps' = Append(clamps, v)
        /\ params' = [params EXCEPT ![v] = p]
    /\ UNCHANGED <<position, goal, driver, iterations, pc, queue, start_quality, last,
                   avars, fvars>>

\* Optimizer.optimize(max_iterations, relaxed_iterations, tolerance): line 189
Optimize ==
    /\ pc = "idle"
    /\ \E mi \in 1..MaxIterations, ri \in 0..MaxRelaxed, tol \in Tolerances :
        driver' = [max_iterations |-> mi, relaxed_iterations |-> ri, tolerance |-> tol]
    /\ iterations' = <<>>
    /\ start_quality' = GridQuality(position, goal)
    /\ pc' = "loop"
    /\ UNCHANGED <<position, goal, clamps, params, queue, last, avars, fvars>>

\* while not driver.converged: iteration = driver.begin_iteration(self.grid.quality)
LoopTest ==
    /\ pc = "loop"
    /\ \E outcome \in converged(iterations, driver) :
        \/ /\ outcome = "true"
           /\ pc' = "done"
           /\ UNCHANGED <<iterations, queue>>
        \/ /\ outcome = "raise"
           /\ pc' = "error"
           /\ UNCHANGED <<iterations, queue>>
        \/ /\ outcome = "false"
           /\ IF driver.relaxed_iterations = 0
              THEN /\ pc' = "error"
                   /\ UNCHANGED <<iterations, queue>>
              ELSE /\ iterations' = Append(iterations,
                        [relaxation |-> next_relaxation(iterations,
                                                        driver.relaxed_iterations),
                         initial_quality |-> GridQuality(position, goal),
                         final_quality |-> VBIG])
                   /\ queue' = get_ordered_junctions(position, goal)
                   /\ pc' = "iter"
    /\ UNCHANGED <<position, goal, clamps, params, driver, start_quality, last, avars, fvars>>

\* optimize_iteration: one turn of the loop over the ordered junctions;
\* NoClampError is caught (continue), NoJunctionError, raised by optimize_clamp
\* at line 133 before anything moves, is not
OptimizeJunction ==
    /\ pc = "iter"
    /\ queue # <<>>
    /\ \E clamp \in {_get_clamp(clamps, Head(queue))} :
        IF clamp = NoClampError
        THEN /\ pc' = "iter"
             /\ UNCHANGED <<position, params, last>>
        ELSE IF _get_junction(clamp) = NoJunctionError
        THEN /\ pc' = "error"
             /\ last' = [kind |-> "NoJunctionError", vertex |-> clamp,
                         iteration |-> Len(iterations)]
             /\ UNCHANGED <<position, params>>
        ELSE \E minimized \in ParamSet :
             \E res \in {optimize_clamp([position |-> position, params |-> params,
                                         goal |-> goal], clamp,
                                        iterations[Len(iterations)].relaxation,
                                        minimized)} :
                 /\ position' = res.position
                 /\ params' = res.params
                 /\ last' = [iteration |-> Len(iterations)] @@ res.seen
                 /\ pc' = "iter"
    /\ queue' = Tail(queue)
    /\ UNCHANGED <<goal, clamps, driver, iterations, start_quality, avars, fvars>>

\* driver.end_iteration(self.grid.quality)
EndIteration ==
    /\ pc = "iter"
    /\ queue = <<>>
    /\ iterations' = [iterations EXCEPT
                        ![Len(iterations)].final_quality = GridQuality(position, goal)]
    /\ pc' = "loop"
    /\ UNCHANGED <<position, goal, clamps, params, driver, queue, start_quality, last,
                   avars, fvars>>

NextOptimizer == ReleaseVertex \/ Optimize \/ LoopTest \/ OptimizeJunction \/ EndIteration

SpecOptimizer == InitOptimizer /\ [][NextOptimizer]_vars

\* Optimizer(mesh) followed by release_vertex(clamp) for a clamp whose vertex is
\* in no junction of the grid
InitDetached ==
    /\ AssemblyUnused
    /\ GradingUnused
    /\ \E mesh \in [Vertices -> PositionSet] :
        position = [v \in Clampable |->
                        IF v \in Vertices THEN mesh[v] ELSE position_function(v, 0)]
    /\ goal \in PositionSet
    /\ clamps \in {<<v>> : v \in Detached}
    /\ params = [v \in Clampable |-> 0]
    /\ driver = [max_iterations |-> 0, relaxed_iterations |-> 0, tolerance |-> FInt(0)]
    /\ iterations = <<>>
    /\ pc = "idle"
    /\ queue = <<>>
    /\ start_quality = 0
    /\ last = NoClamp

SpecDetached == InitDetached /\ [][NextOptimizer]_vars

----------------------------------------------------------------------------
(* Observations on the assembled mesh *)

Corners == {c \in (1..Len(bv)) \X (1..8) : TRUE}

\* the index a block corner refers to
CornerIndex(heap, refs, b, i) == heap[refs[b][i]].mesh_index

CornerIndexes(heap, refs) ==
    [b \in 1..Len(refs) |-> [i \in 1..8 |-> CornerIndex(heap, refs, b, i)]]

\* the corners of the faces of all blocks that lie on the patch
PatchCorners(bs, patch) ==
    {c \in (1..Len(bs)) \X (1..8) :
        \E s \in SideSet :
            /\ bs[c[1]].patches[s] = patch
            /\ \E k \in 1..4 : FACE_MAP[s][k] = c[2]}

----------------------------------------------------------------------------
(* The meshes handed to collect() *)

NoPatches == [s \in SideSet |-> ""]

Layout(named) == [s \in SideSet |-> IF s \in DOMAIN named THEN named[s] ELSE ""]

Layouts ==
    { NoPatches,
      Layout([top |-> "s1"]),
      Layout([bottom |-> "m1"]),
      Layout([top |-> "s1", right |-> "s1"]),
      Layout([bottom |-> "m1", right |-> "s2"]),
      Layout([bottom |-> "m1", top |-> "m2"]) }

MergeChoices ==
    { <<>>,
      << <<"m1", "s1">> >>,
      << <<"m1", "s1">>, <<"m2", "s2">> >> }

CellChoices ==
    {S \in SUBSET (1..Len(CellList)) : Cardinality(S) \in 1..MaxBlocks}

\* the chosen cells in the order of CellList
CellSeq(S) ==
    [k \in 1..Cardinality(S) |->
        CHOOSE c \in S : Cardinality({d \in S : d < c}) = k - 1]

\* every block starts with 8 Vertex objects of its own, none of them indexed
InitialObjects(bs) ==
    [v \in 1..(8 * Len(bs)) |->
        [point |-> bs[((v - 1) \div 8) + 1].points[((v - 1) % 8) + 1],
         mesh_index |-> -1]]

InitialRefs(bs) == [b \in 1..Len(bs) |-> [i \in 1..8 |-> 8 * (b - 1) + i]]

InitAssembly ==
    /\ \E S \in CellChoices :
         LET cs == CellSeq(S)
             n == Len(cs)
         IN  \E js \in [1..n -> 0..MaxJitter], ls \in [1..n -> Layouts],
                mps \in MergeChoices :
                \* displaced blocks carry no patches, blocks with patches sit on the lattice
                /\ \/ \A k \in 1..n : js[k] = 0
                   \/ (mps = <<>> /\ \A k \in 1..n : ls[k] = NoPatches)
                /\ blocks = [k \in 1..n |->
                                [points |-> BlockPoints(CellList[cs[k]], js[k]),
                                 patches |-> ls[k]]]
                /\ merged_patches = mps
    /\ obj = InitialObjects(blocks)
    /\ bv = InitialRefs(blocks)
    /\ vertices = <<>>
    /\ runs = 0
    /\ first = [count |-> 0, indexes |-> <<>>]
    /\ lastrun = [before |-> 0, merged |-> 0, after |-> 0, originals |-> {}]
    /\ OptimizerUnused
    /\ GradingUnused

----------------------------------------------------------------------------
(* Operations *)

\* the original vertices (by index) on slave-patch faces when the second pass starts
SlaveOriginals(st, bs, mps) ==
    LET visits == SlaveVisits(bs, mps)
    IN  {CornerIndex(st.obj, st.bv, visits[k][1], visits[k][2]) : k \in 1..Len(visits)}

\* VertexList.collect(blocks, merged_patches): both passes, on the current list
Collect ==
    /\ runs < MaxRuns
    /\ \E p1 \in {CollectBlocks([obj |-> obj, bv |-> bv, vertices |-> vertices])} :
       \E res \in {DuplicateSlaves([obj |-> p1.obj, bv |-> p1.bv,
                                    vertices |-> p1.vertices, dup |-> <<>>],
                                   blocks, merged_patches)} :
           /\ obj' = res.obj
           /\ bv' = res.bv
           /\ vertices' = res.vertices
           /\ lastrun' = [before |-> Len(vertices), merged |-> Len(p1.vertices),
                          after |-> Len(res.vertices),
                          originals |-> SlaveOriginals(p1, blocks, merged_patches)]
           /\ first' = IF runs = 0
                       THEN [count |-> Len(res.vertices),
                             indexes |-> CornerIndexes(res.obj, res.bv)]
                       ELSE first
    /\ runs' = runs + 1
    /\ UNCHANGED <<blocks, merged_patches, ovars, fvars>>

\* VertexList(): a new, empty list for the same blocks
NewVertexList ==
    /\ runs >= 1
    /\ runs < MaxRuns
    /\ vertices # <<>>
    /\ vertices' = <<>>
    /\ UNCHANGED <<blocks, merged_patches, obj, bv, runs, first, lastrun, ovars, fvars>>

NextAssembly == Collect \/ NewVertexList

SpecAssembly == InitAssembly /\ [][NextAssembly]_vars

----------------------------------------------------------------------------
(* Assembly: properties *)

Assembled == runs >= 1 /\ vertices # <<>>

InputPoint(c) == blocks[c[1]].points[c[2]]

IndexOf(c) == CornerIndex(obj, bv, c[1], c[2])

CellsOf(S) ==
    /\ Len(blocks) = Cardinality(S)
    /\ \A k \in 1..Len(blocks) : blocks[k].points = BlockPoints(CellList[CellSeq(S)[k]], 0)

\* C1: after collect without merged patches, any two block corners whose given
\* points coincide within the tolerance refer to the same vertex index.
C1_CoincidentCornersShare ==
    (Assembled /\ merged_patches = <<>>) =>
        \A c \in Corners, d \in Corners :
            WithinTol(InputPoint(c), InputPoint(d)) => IndexOf(c) = IndexOf(d)

\* C2: vertices are indexed sequentially in visiting order: vertices[k] has index
\* k; a corner is registered only when no registered vertex is within tolerance
\* (registered vertices are pairwise apart, every corner refers to a vertex within
\* tolerance of its point); two cubes sharing a face give 12 vertices; the
\* three-block fixture gives 16 with blocks 1 and 2 adding 8..11 and 12..15.
C2_SequentialIndexes ==
    /\ \A k \in 1..Len(vertices) : obj[vertices[k]].mesh_index = k - 1
    /\ (Assembled /\ merged_patches = <<>>) =>
        /\ \A k \in 1..Len(vertices), l \in 1..Len(vertices) :
              k # l => ~WithinTol(obj[vertices[k]].point, obj[vertices[l]].point)
        /\ \A c \in Corners :
              /\ WithinTol(obj[bv[c[1]][c[2]]].point, InputPoint(c))
              /\ \E k \in 1..Len(vertices) : vertices[k] = bv[c[1]][c[2]]
        /\ CellsOf({1, 2}) => Len(vertices) = 12
        /\ CellsOf({1, 2, 3}) =>
              /\ Len(vertices) = 16
              /\ CornerIndexes(obj, bv) =
                    << <<0, 1, 2, 3, 4, 5, 6, 7>>,
                       <<1, 8, 9, 2, 5, 10, 11, 6>>,
                       <<2, 9, 12, 13, 6, 11, 14, 15>> >>

C2_FixtureCollected ==
    /\ Assembled
    /\ merged_patches = <<>>
    /\ CellsOf({1, 2, 3})
    /\ Len(vertices) = 16

\* C3: a second collect on the same blocks and merged patches leaves the vertex
\* count and the index of every block corner as they were after the first.
C3_SecondCollectSame ==
    (runs = 2 /\ vertices # <<>>) =>
        /\ Len(vertices) = first.count
        /\ CornerIndexes(obj, bv) = first.indexes

\* C4: for every merged pair, no corner of a slave-patch face refers to the index
\* of a vertex referred to by a master-patch face, and the vertex a slave corner
\* refers to sits at the position of the corner it duplicates.
C4_SlaveDistinctFromMaster ==
    Assembled =>
        \A k \in 1..Len(merged_patches) :
            \A c \in PatchCorners(blocks, merged_patches[k][2]) :
                /\ \A d \in PatchCorners(blocks, merged_patches[k][1]) :
                      IndexOf(c) # IndexOf(d)
                /\ obj[bv[c[1]][c[2]]].point = InputPoint(c)

\* C5: the merged-patches pass appends exactly one vertex per distinct original
\* vertex lying on slave-patch faces.
C5_DuplicatedOnce ==
    runs >= 1 => lastrun.after - lastrun.merged = Cardinality(lastrun.originals)

----------------------------------------------------------------------------
(* Optimizer: properties *)

Running == pc \in {"loop", "iter", "done", "error"}

Max2(a, b) == IF a > b THEN a ELSE b

C7_AtMostMaxIterations == Running => Len(iterations) <= driver.max_iterations

\* what is left of a run of optimize(): the iterations it may still begin, each
\* worth one turn per junction plus its begin and end, and the turns left in
\* the iteration under way
Remaining ==
    (Cardinality(Vertices) + 2) * (Max2(2, driver.max_iterations) - Len(iterations))
        + (IF pc = "iter" THEN Len(queue) + 1 ELSE 0)

RunAdvances ==
    pc \in {"loop", "iter"} =>
        \/ pc' \in {"done", "error"}
        \/ (pc' \in {"loop", "iter"} /\ Remaining' < Remaining)

\* C7: optimize() terminates having run at most max(2, max_iterations)
\* iterations: the count stays within that bound, and every step of a run either
\* ends it or decreases Remaining, which is never negative.
C7_Terminates ==
    /\ [](Running => (Len(iterations) <= Max2(2, driver.max_iterations)
                        /\ Remaining >= 0))
    /\ [][RunAdvances]_vars

C7_TwoIterationsOnBudgetOne ==
    /\ pc = "done"
    /\ driver.max_iterations = 1
    /\ Len(iterations) = 2

FirstImprovement == iterations[1].initial_quality - iterations[1].final_quality

LastImprovement ==
    iterations[Len(iterations)].initial_quality - iterations[Len(iterations)].final_quality

\* last / first < bound, for first # 0 and bound = <<numerator, denominator>>
QuotientBelow(bound) ==
    IF FirstImprovement > 0
    THEN LastImprovement * bound[2] < bound[1] * FirstImprovement
    ELSE LastImprovement * bound[2] > bound[1] * FirstImprovement

ToleranceSquared ==
    << driver.tolerance[1] * driver.tolerance[1], driver.tolerance[2] * driver.tolerance[2] >>

ToleranceTimesFirst ==
    << driver.tolerance[1] * FirstImprovement, driver.tolerance[2] >>

\* C8 as claimed: converged is false with fewer than two iterations; with two or
\* more it is true exactly when the budget is reached or last / first < tolerance^2.
C8_ConvergedToleranceSquared ==
    pc = "loop" =>
        /\ Len(iterations) < 2 => converged(iterations, driver) = {"false"}
        /\ (Len(iterations) >= 2
                /\ (Len(iterations) >= driver.max_iterations \/ FirstImprovement # 0)) =>
            converged(iterations, driver) =
                {IF \/ Len(iterations) >= driver.max_iterations
                    \/ QuotientBelow(ToleranceSquared)
                 THEN "true" ELSE "false"}

\* C8: converged is false with fewer than two iterations; with two or more it is
\* true exactly when the budget is reached or last / first < tolerance * first;
\* with the budget not reached and first = 0 it does not report convergence.
C8_ConvergedToleranceTimesFirst ==
    pc = "loop" =>
        /\ Len(iterations) < 2 => converged(iterations, driver) = {"false"}
        /\ (Len(iterations) >= 2
                /\ (Len(iterations) >= driver.max_iterations \/ FirstImprovement # 0)) =>
            converged(iterations, driver) =
                {IF \/ Len(iterations) >= driver.max_iterations
                    \/ QuotientBelow(ToleranceTimesFirst)
                 THEN "true" ELSE "false"}
        /\ (Len(iterations) >= 2 /\ Len(iterations) < driver.max_iterations
                /\ FirstImprovement = 0) =>
            "true" \notin converged(iterations, driver)

C8_ConvergedBeforeBudget ==
    /\ pc = "loop"
    /\ Len(iterations) >= 2
    /\ Len(iterations) < driver.max_iterations
    /\ FirstImprovement # 0
    /\ QuotientBelow(ToleranceTimesFirst)
    /\ ~QuotientBelow(ToleranceSquared)

\* C9: the relaxation recorded for iteration i (0-based) is
\* min(1, 0.5 + 0.5 / relaxed_iterations * i): 0.5 for the first iteration,
\* non-decreasing, and 1 from iteration relaxed_iterations on.
C9_RelaxationRamp ==
    \A k \in 1..Len(iterations) :
        LET r == iterations[k].relaxation
            i == k - 1
            R == driver.relaxed_iterations
        IN  /\ i = 0 => 2 * r[1] = r[2]
            /\ i > 0 => r[1] * iterations[k - 1].relaxation[2]
                            >= iterations[k - 1].relaxation[1] * r[2]
            /\ i >= R => r[1] = r[2]
            /\ i < R => r[1] * 2 * R = r[2] * (R + i)

C9_RampReachedOne ==
    /\ Len(iterations) = 3
    /\ driver.relaxed_iterations = 2
    /\ iterations[2].relaxation = <<3, 4>>
    /\ iterations[3].relaxation = <<1, 1>>

IterationGoesOn ==
    (pc = "iter" /\ queue # <<>>) => (pc' = "iter" /\ queue' = Tail(queue))

\* C10: optimize_clamp rolls back to the parameters the clamp had before the
\* minimization exactly when grid quality after it is greater than before, and
\* otherwise keeps the minimized parameters and commits them with the
\* iteration's relaxation factor; a rollback does not end the iteration.
C10_RollbackOrCommit ==
    /\ [](last.kind # "none" =>
            IF last.minimized_quality > last.initial_quality
            THEN /\ last.kind = "rollback"
                 /\ last.update = <<last.initial_params, <<1, 1>> >>
                 /\ last.final_params = last.initial_params
            ELSE /\ last.kind = "commit"
                 /\ last.update = <<last.minimized_params,
                                    iterations[last.iteration].relaxation>>
                 /\ last.final_params = last.minimized_params)
    /\ [][IterationGoesOn]_vars

C10_RolledBackAndWentOn ==
    /\ pc = "iter"
    /\ last.kind = "rollback"
    /\ last.minimized_params # last.initial_params
    /\ queue # <<>>
    /\ iterations[Len(iterations)].relaxation # <<1, 1>>

----------------------------------------------------------------------------
(* Automatic grading: ChopParams *)

\* Python's None, where a float is optional (sizes are never negative)
None == 0 - 1

Lengths == 0..MaxLength

Counts == 0..MaxCount

Stages == {0, 1}

\* size_before / size_after: CellSizeType = Optional[float]
CellSizeType == {None} \cup (0..MaxSize)

\* int(x) of a float: truncation towards zero
int(x) == IF x[1] >= 0 THEN x[1] \div x[2] ELSE 0 - ((0 - x[1]) \div x[2])

\* Chop(length_ratio=1.0, count=None, start_size=None, end_size=None)
Chop(length_ratio, count, start_size, end_size) ==
    [length_ratio |-> length_ratio, count |-> count,
     start_size |-> start_size, end_size |-> end_size]

\* the outcome of a call: a value returned or an exception raised
Return(value) == [raised |-> "", value |-> value]

Raise(exception) == [raised |-> exception]

\* FixedCountParams.get_count
FixedCountParams_get_count(self, length) == self.count

\* FixedCountParams.get_chops
FixedCountParams_get_chops(self, stage, count, length, size_before, size_after) ==
    << Chop(FInt(1), count, None, None) >>

SimpleChopParams_get_count_rounded(self, length) ==
    int(FAdd(FDiv(FInt(length), FInt(self.cell_size)), Frac(1, 2)))

\* SimpleChopParams.get_count
SimpleChopParams_get_count(self, length) ==
    int(FDiv(FInt(length), FInt(self.cell_size)))

\* SimpleChopParams.get_chops
SimpleChopParams_get_chops(self, stage, count, length, size_before, size_after) ==
    << Chop(FInt(1), count, None, None) >>

HighReChopParams_get_count_truncated(self, length) ==
    int(FDiv(FInt(length), FInt(self.cell_size)))

\* HighReChopParams.get_count
HighReChopParams_get_count(self, length) ==
    LET count == int(FDiv(FInt(length), FInt(self.cell_size)))
    IN  IF count % 2 # 0 THEN count + 1 ELSE count

\* HighReChopParams.define_sizes; length / count is evaluated before cramped is
\* looked at
HighReChopParams_define_sizes(self, count, length, size_before, size_after) ==
    IF size_before = 0 \/ size_after = 0 THEN Raise("RuntimeError")
    ELSE IF count = 0 THEN Raise("ZeroDivisionError")
    ELSE LET cramped == self.cell_size * count > length
             base_size == Frac(length, count)
         IN  IF cramped THEN Return(<<base_size, base_size>>)
             ELSE Return(<< FInt(IF size_before = None THEN self.cell_size
                                 ELSE size_before),
                            FInt(IF size_after = None THEN self.cell_size
                                 ELSE size_after) >>)

\* results.x of scipy.optimize.minimize_scalar(..., bounds=[0.1, 0.9])
SplitRatios == {Frac(1, 10), Frac(3, 10), Frac(1, 2), Frac(9, 10)}

HighReChopParams_get_chops_sizes_first(self, stage, count, length, size_before, size_after, x) ==
    LET halfcount == count \div 2
        sizes == HighReChopParams_define_sizes(self, count, length, size_before, size_after)
    IN  IF sizes.raised # "" THEN sizes
        ELSE IF stage = 0
        THEN Return(<< Chop(Frac(1, 2), halfcount, None, None),
                       Chop(Frac(1, 2), halfcount, None, None) >>)
        ELSE Return(<< Chop(x, halfcount, sizes.value[1], None),
                       Chop(FSub(FInt(1), x), halfcount, None, sizes.value[2]) >>)

\* HighReChopParams.get_chops; x is the split minimize_scalar settles on
HighReChopParams_get_chops(self, stage, count, length, size_before, size_after, x) ==
    LET halfcount == count \div 2
        uniform_chops == << Chop(Frac(1, 2), halfcount, None, None),
                            Chop(Frac(1, 2), halfcount, None, None) >>
    IN  IF stage = 0 THEN Return(uniform_chops)
        ELSE LET sizes == HighReChopParams_define_sizes(self, count, length,
                                                        size_before, size_after)
             IN  IF sizes.raised # "" THEN sizes
                 ELSE Return(<< Chop(x, halfcount, sizes.value[1], None),
                                Chop(FSub(FInt(1), x), halfcount, None,
                                     sizes.value[2]) >>)

----------------------------------------------------------------------------
(* Automatic grading: layers of an inflation grading and InflationRules *)

FLeq(a, b) == ~FLess(b, a)

\* cells of growing size laid one after another, from a cell of the given size,
\* while the layer is shorter than length_limit and the next cell is smaller
\* than size_limit
RECURSIVE GrowCells(_, _, _, _, _)
GrowCells(size, c2c_expansion, length_limit, size_limit, layer) ==
    IF FLess(layer.length, length_limit) /\ FLess(size, size_limit)
    THEN GrowCells(FMul(size, c2c_expansion), c2c_expansion, length_limit, size_limit,
                   [layer EXCEPT !.length = FAdd(layer.length, size),
                                 !.count = layer.count + 1,
                                 !.end_size = size])
    ELSE layer

EmptyLayer(kind, start_size) ==
    [kind |-> kind, length |-> FInt(0), count |-> 0, end_size |-> start_size]

\* InflationLayer(wall_size, c2c_expansion, thickness_factor, max_length): cells
\* that grow from the wall over the boundary layer thickness or max_length
InflationLayer(wall_size, c2c_expansion, thickness_factor, max_length) ==
    GrowCells(FInt(wall_size), FInt(c2c_expansion),
              FMin(FInt(wall_size * thickness_factor), max_length), FInt(VBIG),
              EmptyLayer("inflation", FInt(wall_size)))

\* BufferLayer(start_size, c2c_expansion, bulk_size, max_length): the few cells
\* that lead from start_size to the bulk size
BufferLayer(start_size, c2c_expansion, bulk_size, max_length) ==
    GrowCells(FMul(start_size, FInt(c2c_expansion)), FInt(c2c_expansion),
              max_length, FInt(bulk_size), EmptyLayer("buffer", start_size))

\* BulkLayer(cell_size, size_after, remaining_length): uniform cells over what
\* is left
BulkLayer(cell_size, size_after, remaining_length) ==
    LET count == int(FDiv(remaining_length, FInt(cell_size)))
    IN  [kind |-> "bulk", length |-> remaining_length,
         count |-> IF count < 1 THEN 1 ELSE count, end_size |-> FInt(size_after)]

\* LayerStack(length)
LayerStack(length) == [length |-> length, layers |-> <<>>]

RECURSIVE SumLayers(_, _, _)
SumLayers(layers, k, field) ==
    IF k > Len(layers) THEN (IF field = "count" THEN 0 ELSE FInt(0))
    ELSE IF field = "count"
         THEN layers[k].count + SumLayers(layers, k + 1, field)
         ELSE FAdd(layers[k].length, SumLayers(layers, k + 1, field))

\* LayerStack.count
StackCount(stack) == SumLayers(stack.layers, 1, "count")

\* LayerStack.remaining_length
remaining_length(stack) == FSub(stack.length, SumLayers(stack.layers, 1, "length"))

\* LayerStack.add(layer): the layer is appended; True when the stack is full
LayerStack_add(stack, layer) ==
    LET added == [stack EXCEPT !.layers = Append(stack.layers, layer)]
    IN  [stack |-> added, full |-> FLeq(remaining_length(added), FInt(0))]

\* SmoothRules.get_count(length, False, False): an even number of cells of
\* cell_size
SmoothRules_get_count(self, length) ==
    LET count == int(FDiv(length, FInt(self.cell_size)))
    IN  IF count % 2 # 0 THEN count + 1 ELSE count

\* InflationRules.get_inflation_layer
get_inflation_layer(self, max_length) ==
    InflationLayer(self.first_cell_size, self.c2c_expansion, self.bl_thickness_factor,
                   max_length)

\* InflationRules.get_buffer_layer
get_buffer_layer(self, start_size, max_length) ==
    BufferLayer(start_size, self.buffer_expansion, self.bulk_cell_size, max_length)

\* InflationRules.get_bulk_layer
get_bulk_layer(self, remaining, size_after) ==
    BulkLayer(self.bulk_cell_size, size_after, remaining)

InflationRules_get_stack_all_layers(self, length, size_after) ==
    LET inflation == LayerStack_add(LayerStack(length), get_inflation_layer(self, length))
        buffer == LayerStack_add(inflation.stack,
                        get_buffer_layer(self, inflation.stack.layers[1].end_size,
                                         remaining_length(inflation.stack)))
        bulk == LayerStack_add(buffer.stack,
                        get_bulk_layer(self, remaining_length(buffer.stack),
                                       IF size_after = None THEN self.bulk_cell_size
                                       ELSE size_after))
    IN  bulk.stack

\* InflationRules.get_stack
InflationRules_get_stack(self, length, size_after) ==
    LET inflation == LayerStack_add(LayerStack(length), get_inflation_layer(self, length))
        buffer == LayerStack_add(inflation.stack,
                        get_buffer_layer(self, inflation.stack.layers[1].end_size,
                                         remaining_length(inflation.stack)))
        bulk == LayerStack_add(buffer.stack,
                        get_bulk_layer(self, remaining_length(buffer.stack),
                                       IF size_after = None THEN self.bulk_cell_size
                                       ELSE size_after))
    IN  IF inflation.full THEN inflation.stack
        ELSE IF buffer.full THEN buffer.stack
        ELSE bulk.stack

InflationRules_get_count_full_length(self, length, starts_at_wall, ends_at_wall) ==
    IF ~(starts_at_wall \/ ends_at_wall) THEN SmoothRules_get_count(self, FInt(length))
    ELSE IF starts_at_wall /\ ends_at_wall
    THEN 2 * StackCount(InflationRules_get_stack(self, FInt(length), None))
    ELSE StackCount(InflationRules_get_stack(self, FInt(length), None))

\* InflationRules.get_count
InflationRules_get_count(self, length, starts_at_wall, ends_at_wall) ==
    IF ~(starts_at_wall \/ ends_at_wall) THEN SmoothRules_get_count(self, FInt(length))
    ELSE IF starts_at_wall /\ ends_at_wall
    THEN 2 * StackCount(InflationRules_get_stack(self, Frac(length, 2), None))
    ELSE StackCount(InflationRules_get_stack(self, FInt(length), None))

\* InflationRules.is_squeezed(count, info) of a wire that touches a wall
InflationRules_is_squeezed(self, count, info) ==
    LET length == IF info.starts_at_wall /\ info.ends_at_wall
                  THEN Frac(info.length, 2) ELSE FInt(info.length)
        stack == InflationRules_get_stack(self, length, info.size_after)
    IN  IF Len(stack.layers) < 3 THEN TRUE
        ELSE IF StackCount(stack) < count THEN TRUE
        ELSE FALSE

InflationRules_get_sizes_nominal(self, info) ==
    << IF info.size_before = None THEN self.cell_size ELSE info.size_before,
       IF info.size_after = None THEN self.cell_size ELSE info.size_after >>

\* InflationRules.get_sizes(info)
InflationRules_get_sizes(self, info) ==
    << IF info.size_before = None
       THEN (IF info.starts_at_wall THEN self.first_cell_size ELSE self.cell_size)
       ELSE info.size_before,
       IF info.size_after = None
       THEN (IF info.ends_at_wall THEN self.first_cell_size ELSE self.cell_size)
       ELSE info.size_after >>

----------------------------------------------------------------------------
(* Automatic grading: a policy is made, then one of its methods is called;   *)
(* no method changes the policy, so one call from each policy covers them   *)

CellSizes == 1..MaxCellSize

\* InflationRules(first_cell_size, bulk_cell_size, c2c_expansion,
\* bl_thickness_factor, buffer_expansion); cell_size is bulk_cell_size
InflationPolicies ==
    {[class |-> "InflationRules", first_cell_size |-> 1, bulk_cell_size |-> bulk,
      c2c_expansion |-> 2, bl_thickness_factor |-> factor, buffer_expansion |-> 2,
      cell_size |-> bulk] : bulk \in {4, 2 * 4 + MaxCellSize}, factor \in {1, 3}}

Policies ==
    {[class |-> "FixedCountParams", count |-> c] : c \in Counts}
        \cup {[class |-> "SimpleChopParams", cell_size |-> c] : c \in CellSizes}
        \cup {[class |-> "HighReChopParams", cell_size |-> c] : c \in CellSizes}
        \cup InflationPolicies

InitGrading ==
    /\ AssemblyUnused
    /\ OptimizerUnused
    /\ policy \in Policies
    /\ the_block = NoBlock
    /\ answer = NoAnswer
    /\ ConstructUnused

FixedCountGetCount ==
    /\ answer = NoAnswer
    /\ policy.class = "FixedCountParams"
    /\ \E length \in Lengths :
        answer' = [op |-> "FixedCountParams.get_count", length |-> length,
                   result |-> FixedCountParams_get_count(policy, length)]
    /\ UNCHANGED <<policy, the_block, operation, data, avars, ovars>>

FixedCountGetChops ==
    /\ answer = NoAnswer
    /\ policy.class = "FixedCountParams"
    /\ \E stage \in Stages, count \in Counts, length \in Lengths,
          size_before \in CellSizeType, size_after \in CellSizeType :
        answer' = [op |-> "FixedCountParams.get_chops", stage |-> stage,
                   count |-> count, length |-> length,
                   size_before |-> size_before, size_after |-> size_after,
                   result |-> FixedCountParams_get_chops(policy, stage, count, length,
                                                         size_before, size_after)]
    /\ UNCHANGED <<policy, the_block, operation, data, avars, ovars>>

SimpleGetCount ==
    /\ answer = NoAnswer
    /\ policy.class = "SimpleChopParams"
    /\ \E length \in Lengths :
        answer' = [op |-> "SimpleChopParams.get_count", length |-> length,
                   result |-> SimpleChopParams_get_count(policy, length)]
    /\ UNCHANGED <<policy, the_block, operation, data, avars, ovars>>

SimpleGetChops ==
    /\ answer = NoAnswer
    /\ policy.class = "SimpleChopParams"
    /\ \E stage \in Stages, count \in Counts, length \in Lengths,
          size_before \in CellSizeType, size_after \in CellSizeType :
        answer' = [op |-> "SimpleChopParams.get_chops", stage |-> stage,
                   count |-> count, length |-> length,
                   size_before |-> size_before, size_after |-> size_after,
                   result |-> SimpleChopParams_get_chops(policy, stage, count, length,
                                                         size_before, size_after)]
    /\ UNCHANGED <<policy, the_block, operation, data, avars, ovars>>

HighReGetCount ==
    /\ answer = NoAnswer
    /\ policy.class = "HighReChopParams"
    /\ \E length \in Lengths :
        answer' = [op |-> "HighReChopParams.get_count", length |-> length,
                   result |-> HighReChopParams_get_count(policy, length)]
    /\ UNCHANGED <<policy, the_block, operation, data, avars, ovars>>

HighReDefineSizes ==
    /\ answer = NoAnswer
    /\ policy.class = "HighReChopParams"
    /\ \E count \in Counts, length \in Lengths,
          size_before \in CellSizeType, size_after \in CellSizeType :
        answer' = [op |-> "HighReChopParams.define_sizes",
                   count |-> count, length |-> length,
                   size_before |-> size_before, size_after |-> size_after,
                   result |-> HighReChopParams_define_sizes(policy, count, length,
                                                            size_before, size_after)]
    /\ UNCHANGED <<policy, the_block, operation, data, avars, ovars>>

HighReGetChops ==
    /\ answer = NoAnswer
    /\ policy.class = "HighReChopParams"
    /\ \E stage \in Stages, count \in Counts, length \in Lengths,
          size_before \in CellSizeType, size_after \in CellSizeType, x \in SplitRatios :
        answer' = [op |-> "HighReChopParams.get_chops", stage |-> stage,
                   count |-> count, length |-> length,
                   size_before |-> size_before, size_after |-> size_after,
                   result |-> HighReChopParams_get_chops(policy, stage, count, length,
                                                         size_before, size_after, x)]
    /\ UNCHANGED <<policy, the_block, operation, data, avars, ovars>>

InflationGetStack ==
    /\ answer = NoAnswer
    /\ policy.class = "InflationRules"
    /\ \E length \in Lengths, halved \in BOOLEAN, size_after \in CellSizeType \ {0} :
        answer' = [op |-> "InflationRules.get_stack",
                   length |-> IF halved THEN Frac(length, 2) ELSE FInt(length),
                   size_after |-> size_after,
                   result |-> InflationRules_get_stack(policy,
                                    IF halved THEN Frac(length, 2) ELSE FInt(length),
                                    size_after)]
    /\ UNCHANGED <<policy, the_block, operation, data, avars, ovars>>

InflationGetCount ==
    /\ answer = NoAnswer
    /\ policy.class = "InflationRules"
    /\ \E length \in Lengths, starts_at_wall \in BOOLEAN, ends_at_wall \in BOOLEAN :
        answer' = [op |-> "InflationRules.get_count", length |-> length,
                   starts_at_wall |-> starts_at_wall, ends_at_wall |-> ends_at_wall,
                   result |-> InflationRules_get_count(policy, length, starts_at_wall,
                                                       ends_at_wall)]
    /\ UNCHANGED <<policy, the_block, operation, data, avars, ovars>>

\* info: the WireInfo of a wire
InflationGetSizes ==
    /\ answer = NoAnswer
    /\ policy.class = "InflationRules"
    /\ \E length \in Lengths, starts_at_wall \in BOOLEAN, ends_at_wall \in BOOLEAN,
          size_before \in CellSizeType, size_after \in CellSizeType :
        \E info \in {[length |-> length, starts_at_wall |-> starts_at_wall,
                      ends_at_wall |-> ends_at_wall, size_before |-> size_before,
                      size_after |-> size_after]} :
            answer' = [op |-> "InflationRules.get_sizes", info |-> info,
                       result |-> InflationRules_get_sizes(policy, info)]
    /\ UNCHANGED <<policy, the_block, operation, data, avars, ovars>>

\* is_squeezed of a wire at a wall, for the count of the wire or any other
InflationIsSqueezed ==
    /\ answer = NoAnswer
    /\ policy.class = "InflationRules"
    /\ \E length \in Lengths, starts_at_wall \in BOOLEAN, ends_at_wall \in BOOLEAN,
          size_after \in CellSizeType :
        /\ starts_at_wall \/ ends_at_wall
        /\ \E info \in {[length |-> length, starts_at_wall |-> starts_at_wall,
                         ends_at_wall |-> ends_at_wall, size_before |-> None,
                         size_after |-> size_after]} :
           \E count \in Counts \cup {InflationRules_get_count(policy, length,
                                            starts_at_wall, ends_at_wall)} :
                answer' = [op |-> "InflationRules.is_squeezed", count |-> count,
                           info |-> info,
                           result |-> InflationRules_is_squeezed(policy, count, info)]
    /\ UNCHANGED <<policy, the_block, operation, data, avars, ovars>>

NextGrading ==
    \/ FixedCountGetCount \/ FixedCountGetChops
    \/ SimpleGetCount \/ SimpleGetChops
    \/ HighReGetCount \/ HighReDefineSizes \/ HighReGetChops
    \/ InflationGetStack \/ InflationGetCount \/ InflationGetSizes \/ InflationIsSqueezed

SpecGrading == InitGrading /\ [][NextGrading]_vars

\* one turn of the loop of optimize_iteration: the loop goes on with the next
\* junction, and only the vertex of a junction that has a clamp may move
TurnSkipsOrOptimizes ==
    (pc = "iter" /\ queue # <<>>) =>
        /\ pc' = "iter"
        /\ queue' = Tail(queue)
        /\ \A v \in Clampable :
                (v # Head(queue) \/ ~HasClamp(clamps, v)) =>
                    (position'[v] = position[v] /\ params'[v] = params[v])

\* C11: in optimize_iteration a junction without a clamp is skipped and a clamp
\* whose vertex has no junction is never reached: no NoJunctionError (and no
\* NoClampError) ends the iteration, the remaining junctions are still
\* processed, and the vertices of skipped junctions and clamps do not move.
C11_SkippedNotFatal ==
    /\ [](last.kind # "NoJunctionError")
    /\ [][TurnSkipsOrOptimizes]_vars

\* an iteration over two junctions ended: the worse one had no clamp, the other
\* one was optimized after it, and the first registered clamp holds a vertex
\* without junction
C11_SkippedThenOptimized ==
    /\ pc = "iter"
    /\ queue = <<>>
    /\ Len(clamps) = 2
    /\ clamps[1] \in Detached
    /\ clamps[2] \in Vertices
    /\ last.kind \in {"commit", "rollback"}
    /\ last.iteration = Len(iterations)
    /\ last.vertex = clamps[2]
    /\ \E u \in Vertices \ {clamps[2]} :
            2 * JunctionQuality(position, goal, u) > last.initial_quality

----------------------------------------------------------------------------
(* Block: vertices, edges and the queries on them *)

\* constants.AXIS_PAIRS: per axis, the 4 corner pairs along it (corners 0..7)
AXIS_PAIRS ==
    << << <<0, 1>>, <<3, 2>>, <<7, 6>>, <<4, 5>> >>,
       << <<0, 3>>, <<1, 2>>, <<5, 6>>, <<4, 7>> >>,
       << <<0, 4>>, <<1, 5>>, <<2, 6>>, <<3, 7>> >> >>

\* f.norm of the difference of two points that are a whole number apart
norm(a, b) == CHOOSE n \in 0..(3 * UnitLen) : n * n = Norm2(a, b)

\* a box of 8 x 4 x 2 lattice units; in a wedge the top face is collapsed to an
\* edge along y (corner 5 on 4, corner 6 on 7) above a 3 x 4 base, 4 units up
BoxPoints ==
    << <<0, 0, 0>>, <<8, 0, 0>>, <<8, 4, 0>>, <<0, 4, 0>>,
       <<0, 0, 2>>, <<8, 0, 2>>, <<8, 4, 2>>, <<0, 4, 2>> >>

WedgePoints ==
    << <<0, 0, 0>>, <<3, 0, 0>>, <<3, 4, 0>>, <<0, 4, 0>>,
       <<0, 0, 4>>, <<0, 0, 4>>, <<0, 4, 4>>, <<0, 4, 4>> >>

\* Vertex(position, index) for the 8 corners: the first block of a mesh (index =
\* corner number), the second block of the fixture mesh, and a wedge
VertexLists ==
    { [c \in 1..8 |-> [index |-> c - 1, pos |-> BoxPoints[c]]],
      [c \in 1..8 |-> [index |-> <<1, 8, 9, 2, 5, 10, 11, 6>>[c], pos |-> BoxPoints[c]]],
      [c \in 1..8 |-> [index |-> <<0, 1, 2, 3, 4, 4, 5, 5>>[c], pos |-> WedgePoints[c]]] }

VertexEq_by_position(self, other) == self.pos = other.pos

\* Vertex.__eq__
VertexEq(self, other) == self.index = other.index

\* the block edges an Edge can be defined on, as corner pairs, and one of them
\* given from its far end
EdgeCorners ==
    {AXIS_PAIRS[a][k] : a \in 1..3, k \in 1..4} \cup {<<1, 0>>}

\* Edge(vertex_1, vertex_2, ...): an arc, one unit longer than the straight line
Edge(vs, corners) ==
    [vertex_1 |-> vs[corners[1] + 1], vertex_2 |-> vs[corners[2] + 1],
     corners |-> corners,
     length |-> norm(vs[corners[1] + 1].pos, vs[corners[2] + 1].pos) + 1]

RECURSIVE SetToSeq(_)
SetToSeq(S) ==
    IF S = {} THEN <<>>
    ELSE LET x == CHOOSE y \in S : \A z \in S : y[1] * 8 + y[2] <= z[1] * 8 + z[2]
         IN  <<x>> \o SetToSeq(S \ {x})

\* Block(data, index, vertices, edges) on the vertices vs, with no edge on a
\* collapsed pair
BlocksOn(vs) ==
    {[vertices |-> vs,
      edges |-> [k \in 1..Cardinality(E) |-> Edge(vs, SetToSeq(E)[k])]] :
        E \in {F \in SUBSET EdgeCorners :
                    /\ Cardinality(F) <= MaxEdges
                    /\ \A c \in F : ~VertexEq(vs[c[1] + 1], vs[c[2] + 1])}}

Blocks == UNION {BlocksOn(vs) : vs \in VertexLists}

\* Block.find_edge(index_1, index_2)
RECURSIVE FindEdgeFrom(_, _, _, _)
FindEdgeFrom(self, index_1, index_2, k) ==
    IF k > Len(self.edges) THEN Raise("RuntimeError")
    ELSE IF {self.edges[k].vertex_1.index, self.edges[k].vertex_2.index}
                = {index_1, index_2}
         THEN Return(self.edges[k])
         ELSE FindEdgeFrom(self, index_1, index_2, k + 1)

find_edge(self, index_1, index_2) == FindEdgeFrom(self, index_1, index_2, 1)

\* vertex_distance in Block.get_size
vertex_distance(self, index_1, index_2) ==
    norm(self.vertices[index_1 + 1].pos, self.vertices[index_2 + 1].pos)

\* block_size in Block.get_size
block_size(self, index_1, index_2) ==
    LET found == find_edge(self, index_1, index_2)
    IN  IF found.raised = "" THEN found.value.length
        ELSE vertex_distance(self, index_1, index_2)

Takes == {"avg", "min", "max", "median"}

Min4(q) == CHOOSE x \in {q[k] : k \in 1..4} : \A k \in 1..4 : x <= q[k]

Max4(q) == CHOOSE x \in {q[k] : k \in 1..4} : \A k \in 1..4 : x >= q[k]

\* Block.get_size(axis, take)
get_size(self, axis, take) ==
    LET edge_lengths == [k \in 1..4 |->
                            block_size(self, AXIS_PAIRS[axis + 1][k][1],
                                       AXIS_PAIRS[axis + 1][k][2])]
    IN  IF take = "avg"
        THEN Return(Frac(edge_lengths[1] + edge_lengths[2] + edge_lengths[3]
                            + edge_lengths[4], 4))
        ELSE IF take = "min" THEN Return(FInt(Min4(edge_lengths)))
        ELSE IF take = "max" THEN Return(FInt(Max4(edge_lengths)))
        ELSE Raise("ValueError")

\* pair in pairs, for lists of Vertex objects
PairIn(pair, pairs) ==
    \E k \in 1..Len(pairs) :
        VertexEq(pairs[k][1], pair[1]) /\ VertexEq(pairs[k][2], pair[2])

\* Block.get_axis_vertex_pairs(axis): the loop from its k-th corner pair on
RECURSIVE AxisVertexPairsFrom(_, _, _, _)
AxisVertexPairsFrom(self, axis, k, pairs) ==
    IF k > 4 THEN pairs
    ELSE LET pair == << self.vertices[AXIS_PAIRS[axis + 1][k][1] + 1],
                        self.vertices[AXIS_PAIRS[axis + 1][k][2] + 1] >>
         IN  IF VertexEq(pair[1], pair[2]) \/ PairIn(pair, pairs)
             THEN AxisVertexPairsFrom(self, axis, k + 1, pairs)
             ELSE AxisVertexPairsFrom(self, axis, k + 1, Append(pairs, pair))

get_axis_vertex_pairs(self, axis) == AxisVertexPairsFrom(self, axis, 1, <<>>)

\* indexes in pairs, for a list of two ints and a list of Vertex pairs: the
\* first pair is compared with the ints item by item, Vertex.__eq__ reads
\* other.index of an int and AttributeError is raised
IndexesIn(indexes, pairs) ==
    IF pairs = <<>> THEN Return(FALSE) ELSE Raise("AttributeError")

\* Block.get_axis_from_pair(pair): the loop from axis i on
RECURSIVE AxisFromPairFrom(_, _, _)
AxisFromPairFrom(self, pair, i) ==
    IF i > 2 THEN Raise("RuntimeError")
    ELSE LET indexes == <<pair[1].index, pair[2].index>>
             sexedni == <<pair[2].index, pair[1].index>>
             pairs == get_axis_vertex_pairs(self, i)
             aligned == IndexesIn(indexes, pairs)
             inverted == IndexesIn(sexedni, pairs)
         IN  IF aligned.raised # "" THEN aligned
             ELSE IF aligned.value THEN Return(<<i, TRUE>>)
             ELSE IF inverted.raised # "" THEN inverted
             ELSE IF inverted.value THEN Return(<<i, FALSE>>)
             ELSE AxisFromPairFrom(self, pair, i + 1)

get_axis_from_pair(self, pair) == AxisFromPairFrom(self, pair, 0)

----------------------------------------------------------------------------
(* Block: a block is made, then one query is put to it *)

InitBlock ==
    /\ AssemblyUnused
    /\ OptimizerUnused
    /\ policy = NoPolicy
    /\ the_block \in Blocks
    /\ answer = NoAnswer
    /\ ConstructUnused

\* indexes a caller can pass: corner numbers and vertex indexes
MaxIndex == 11

FindEdge ==
    /\ answer = NoAnswer
    /\ the_block # NoBlock
    /\ \E index_1 \in 0..MaxIndex, index_2 \in 0..MaxIndex :
        answer' = [op |-> "Block.find_edge", index_1 |-> index_1, index_2 |-> index_2,
                   result |-> find_edge(the_block, index_1, index_2)]
    /\ UNCHANGED <<policy, the_block, operation, data, avars, ovars>>

GetSize ==
    /\ answer = NoAnswer
    /\ the_block # NoBlock
    /\ \E axis \in 0..2, take \in Takes :
        answer' = [op |-> "Block.get_size", axis |-> axis, take |-> take,
                   result |-> get_size(the_block, axis, take)]
    /\ UNCHANGED <<policy, the_block, operation, data, avars, ovars>>

GetAxisVertexPairs ==
    /\ answer = NoAnswer
    /\ the_block # NoBlock
    /\ \E axis \in 0..2 :
        answer' = [op |-> "Block.get_axis_vertex_pairs", axis |-> axis,
                   result |-> get_axis_vertex_pairs(the_block, axis)]
    /\ UNCHANGED <<policy, the_block, operation, data, avars, ovars>>

\* the pair is made of two vertices of the block
GetAxisFromPair ==
    /\ answer = NoAnswer
    /\ the_block # NoBlock
    /\ \E c1 \in 0..7, c2 \in 0..7 :
        answer' = [op |-> "Block.get_axis_from_pair", corners |-> <<c1, c2>>,
                   result |-> get_axis_from_pair(the_block,
                                    << the_block.vertices[c1 + 1],
                                       the_block.vertices[c2 + 1] >>)]
    /\ UNCHANGED <<policy, the_block, operation, data, avars, ovars>>

NextBlock == FindEdge \/ GetSize \/ GetAxisVertexPairs \/ GetAxisFromPair

SpecBlock == InitBlock /\ [][NextBlock]_vars

----------------------------------------------------------------------------
(* Automatic grading: properties *)

\* q is floor(length / cell_size)
IsFloor(q, length, cell_size) ==
    q * cell_size <= length /\ length < (q + 1) * cell_size

\* C12: HighReChopParams.get_count returns an even count, floor(length /
\* cell_size) when that is even and one more otherwise; with length = 100 *
\* cell_size (cell_size 0.1, length 10) the count is even and at least 100.
C12_EvenCount ==
    answer.op = "HighReChopParams.get_count" =>
        /\ answer.result % 2 = 0
        /\ \E q \in 0..answer.length :
            /\ IsFloor(q, answer.length, policy.cell_size)
            /\ answer.result = IF q % 2 = 0 THEN q ELSE q + 1
        /\ answer.length = 100 * policy.cell_size => answer.result >= 100

C12_RoundedUpToEven ==
    /\ answer.op = "HighReChopParams.get_count"
    /\ policy.cell_size = 3
    /\ answer.length = 100
    /\ answer.result = 34

\* C13: for every count, in stage 0 and in stage 1, the chops that
\* HighReChopParams.get_chops returns are two, their counts sum to the count
\* given, their length ratios sum to 1, and in stage 1 the first length ratio
\* is in [0.1, 0.9].
C13_TwoChopsSumToCount ==
    (answer.op = "HighReChopParams.get_chops" /\ answer.result.raised = "") =>
        LET chops == answer.result.value
        IN  /\ Len(chops) = 2
            /\ chops[1].count + chops[2].count = answer.count
            /\ FAdd(chops[1].length_ratio, chops[2].length_ratio) = FInt(1)
            /\ answer.stage = 1 =>
                (FLeq(Frac(1, 10), chops[1].length_ratio)
                    /\ FLeq(chops[1].length_ratio, Frac(9, 10)))

\* C14: SimpleChopParams.get_count is floor(length / cell_size); its get_chops
\* returns one chop with the count given, whatever stage, length and sizes;
\* FixedCountParams.get_count is the configured count for every length.
C14_SimpleAndFixedCounts ==
    /\ answer.op = "SimpleChopParams.get_count" =>
        IsFloor(answer.result, answer.length, policy.cell_size)
    /\ answer.op = "SimpleChopParams.get_chops" =>
        answer.result = << Chop(FInt(1), answer.count, None, None) >>
    /\ answer.op = "FixedCountParams.get_count" => answer.result = policy.count

C14_FloorOfInexactQuotient ==
    /\ answer.op = "SimpleChopParams.get_count"
    /\ policy.cell_size = 3
    /\ answer.length = 2
    /\ answer.result = 0

Kinds(stack) == [k \in 1..Len(stack.layers) |-> stack.layers[k].kind]

\* the length the first k layers of a stack leave free
LeftAfter(stack, k) ==
    FSub(stack.length, SumLayers(SubSeq(stack.layers, 1, k), 1, "length"))

\* C15: the layers of the stack InflationRules.get_stack returns are a
\* non-empty prefix of (inflation, buffer, bulk): a buffer layer follows only
\* an inflation layer that left room, a bulk layer only a buffer layer that
\* left room, and a stack of fewer than three layers ends with the layer that
\* filled it.
C15_StackIsPrefix ==
    answer.op = "InflationRules.get_stack" =>
        LET stack == answer.result
            n == Len(stack.layers)
        IN  /\ n \in 1..3
            /\ Kinds(stack) = SubSeq(<<"inflation", "buffer", "bulk">>, 1, n)
            /\ stack.length = answer.length
            /\ \A k \in 1..(n - 1) : FLess(FInt(0), LeftAfter(stack, k))
            /\ n < 3 => FLeq(LeftAfter(stack, n), FInt(0))

C15_SqueezedToTwoLayers ==
    /\ answer.op = "InflationRules.get_stack"
    /\ Kinds(answer.result) = <<"inflation", "buffer">>
    /\ answer.result.layers[2].count >= 1

\* C16: InflationRules.get_count with both ends at a wall is twice the count of
\* the stack built for length / 2, an even number; with one end at a wall it
\* is the count of the stack built for the full length, whichever end it is;
\* with no wall it is the SmoothRules count.
C16_CountByWalls ==
    answer.op = "InflationRules.get_count" =>
        LET both == answer.starts_at_wall /\ answer.ends_at_wall
            one == answer.starts_at_wall # answer.ends_at_wall
        IN  /\ both =>
                /\ answer.result =
                    2 * StackCount(InflationRules_get_stack(policy,
                                        Frac(answer.length, 2), None))
                /\ answer.result % 2 = 0
            /\ one =>
                /\ answer.result =
                    StackCount(InflationRules_get_stack(policy, FInt(answer.length),
                                                        None))
                /\ answer.result =
                    InflationRules_get_count(policy, answer.length,
                                             answer.ends_at_wall, answer.starts_at_wall)
            /\ (~both /\ ~one) =>
                answer.result = SmoothRules_get_count(policy, FInt(answer.length))

\* two walls, and the count is not the one a single wall gives for the length
C16_DoubleWallHalved ==
    /\ answer.op = "InflationRules.get_count"
    /\ answer.starts_at_wall
    /\ answer.ends_at_wall
    /\ answer.result > 0
    /\ answer.result # 2 * InflationRules_get_count(policy, answer.length, TRUE, FALSE)
    /\ answer.result # InflationRules_get_count(policy, answer.length, TRUE, FALSE)

Provided(size, substitute) == IF size = None THEN substitute ELSE size

\* C17 as claimed: an end whose neighbouring wire gives no size gets the cell
\* size of the policy, and a size that is given is passed through unchanged.
C17_NominalCellSize ==
    /\ (answer.op = "HighReChopParams.define_sizes" /\ answer.result.raised = "") =>
        answer.result.value =
            << FInt(Provided(answer.size_before, policy.cell_size)),
               FInt(Provided(answer.size_after, policy.cell_size)) >>
    /\ answer.op = "InflationRules.get_sizes" =>
        answer.result =
            << Provided(answer.info.size_before, policy.cell_size),
               Provided(answer.info.size_after, policy.cell_size) >>

\* C17: HighReChopParams.define_sizes raises RuntimeError for a size of 0; on a
\* cramped wire (cell_size * count > length) it returns length / count for both
\* ends; otherwise None becomes cell_size and a given size is passed through.
\* InflationRules.get_sizes replaces None by first_cell_size at a wall end and by
\* cell_size (bulk_cell_size) elsewhere, and passes a given size through.
C17_SizesByPolicy ==
    /\ answer.op = "HighReChopParams.define_sizes" =>
        IF answer.size_before = 0 \/ answer.size_after = 0
        THEN answer.result.raised = "RuntimeError"
        ELSE IF answer.count = 0 THEN answer.result.raised = "ZeroDivisionError"
        ELSE /\ answer.result.raised = ""
             /\ answer.result.value =
                    IF policy.cell_size * answer.count > answer.length
                    THEN << Frac(answer.length, answer.count),
                            Frac(answer.length, answer.count) >>
                    ELSE << FInt(Provided(answer.size_before, policy.cell_size)),
                            FInt(Provided(answer.size_after, policy.cell_size)) >>
    /\ answer.op = "InflationRules.get_sizes" =>
        /\ policy.cell_size = policy.bulk_cell_size
        /\ answer.result =
            << Provided(answer.info.size_before,
                        IF answer.info.starts_at_wall THEN policy.first_cell_size
                        ELSE policy.cell_size),
               Provided(answer.info.size_after,
                        IF answer.info.ends_at_wall THEN policy.first_cell_size
                        ELSE policy.cell_size) >>

C17_WallEndGetsFirstCellSize ==
    /\ answer.op = "InflationRules.get_sizes"
    /\ answer.info.size_before = None
    /\ answer.info.starts_at_wall
    /\ answer.info.size_after = None
    /\ ~answer.info.ends_at_wall
    /\ answer.result = <<policy.first_cell_size, policy.bulk_cell_size>>
    /\ policy.first_cell_size # policy.bulk_cell_size

----------------------------------------------------------------------------
(* Block: properties *)

\* is there an explicitly defined edge between the block corners of a pair
DefinedOn(self, corners) ==
    \E k \in 1..Len(self.edges) :
        {self.edges[k].corners[1], self.edges[k].corners[2]} = {corners[1], corners[2]}

\* the size of the block along one corner pair: the length of the edge defined
\* between the two corners, or the distance of the two corner vertices
PairSize(self, corners) ==
    IF DefinedOn(self, corners)
    THEN LET k == CHOOSE j \in 1..Len(self.edges) :
                    {self.edges[j].corners[1], self.edges[j].corners[2]}
                        = {corners[1], corners[2]}
         IN  self.edges[k].length
    ELSE norm(self.vertices[corners[1] + 1].pos, self.vertices[corners[2] + 1].pos)

PairSizes(self, axis) == [k \in 1..4 |-> PairSize(self, AXIS_PAIRS[axis + 1][k])]

\* C18: Block.get_size(axis, take) takes, for each of the 4 corner pairs of the
\* axis, the length of the edge defined between the two corners if there is one
\* and the distance of the two corner vertices otherwise, and returns their
\* average, minimum or maximum (min <= avg <= max); any other take raises
\* ValueError, and no failed edge lookup is passed on.
C18_SizeFromEdgesOrDistance ==
    answer.op = "Block.get_size" =>
        LET sizes == PairSizes(the_block, answer.axis)
            avg == Frac(sizes[1] + sizes[2] + sizes[3] + sizes[4], 4)
        IN  /\ answer.take = "avg" => answer.result = Return(avg)
            /\ answer.take = "min" =>
                (answer.result = Return(FInt(Min4(sizes)))
                    /\ FLeq(FInt(Min4(sizes)), avg))
            /\ answer.take = "max" =>
                (answer.result = Return(FInt(Max4(sizes)))
                    /\ FLeq(avg, FInt(Max4(sizes))))
            /\ answer.take \notin {"avg", "min", "max"} =>
                answer.result = Raise("ValueError")

\* the pair of vertices runs along the k-th corner pair of the axis
RunsAlong(self, pair, axis, k) ==
    LET corners == AXIS_PAIRS[axis + 1][k]
    IN  /\ ~VertexEq(self.vertices[corners[1] + 1], self.vertices[corners[2] + 1])
        /\ VertexEq(pair[1], self.vertices[corners[1] + 1])
        /\ VertexEq(pair[2], self.vertices[corners[2] + 1])

Aligned(self, pair, axis) == \E k \in 1..4 : RunsAlong(self, pair, axis, k)

Inverted(self, pair, axis) == \E k \in 1..4 : RunsAlong(self, <<pair[2], pair[1]>>, axis, k)

\* C19: Block.find_edge returns an edge whose endpoints are the two indexes
\* given, in either order, and raises RuntimeError when the block has none;
\* Block.get_axis_from_pair returns (axis, True) for a pair of vertices that runs
\* along the axis in block order, (axis, False) for one that runs against it,
\* and raises RuntimeError for a pair on no axis of the block.
C19_LookupsFailHard ==
    /\ answer.op = "Block.find_edge" =>
        IF \E k \in 1..Len(the_block.edges) :
                {the_block.edges[k].vertex_1.index, the_block.edges[k].vertex_2.index}
                    = {answer.index_1, answer.index_2}
        THEN /\ answer.result.raised = ""
             /\ {answer.result.value.vertex_1.index, answer.result.value.vertex_2.index}
                    = {answer.index_1, answer.index_2}
        ELSE answer.result = Raise("RuntimeError")
    /\ answer.op = "Block.get_axis_from_pair" =>
        LET pair == << the_block.vertices[answer.corners[1] + 1],
                       the_block.vertices[answer.corners[2] + 1] >>
        IN  /\ \A axis \in 0..2 :
                /\ Aligned(the_block, pair, axis) =>
                    answer.result = Return(<<axis, TRUE>>)
                /\ Inverted(the_block, pair, axis) =>
                    answer.result = Return(<<axis, FALSE>>)
            /\ (\A axis \in 0..2 : ~Aligned(the_block, pair, axis)
                                    /\ ~Inverted(the_block, pair, axis)) =>
                answer.result = Raise("RuntimeError")

----------------------------------------------------------------------------
(* Vertex identity: properties *)

\* the k-th vertex of the global vertex list, as Vertex(position, index)
Registered(k) == [pos |-> obj[vertices[k]].point, index |-> obj[vertices[k]].mesh_index]

\* every vertex of the list keeps its place in the list and its index
TurnKeepsIndexes ==
    vertices' # <<>> =>
        \A k \in 1..Len(vertices) :
            /\ k <= Len(vertices')
            /\ vertices'[k] = vertices[k]
            /\ obj'[vertices[k]].mesh_index = obj[vertices[k]].mesh_index

\* C20: a vertex is identified by its index: two vertices of the global vertex
\* list compare equal exactly when they are the same vertex, wherever they are
\* (a duplicate made on a slave patch is not equal to the vertex it was copied
\* from), the index of a vertex is its place in the list, given when it is
\* registered, and no later step on that list (a further collect, the
\* deduplication of further blocks, the patch-merge pass) changes it.
C20_IndexIsIdentity ==
    /\ [](\A j, k \in 1..Len(vertices) :
            /\ VertexEq(Registered(j), Registered(k)) <=> j = k
            /\ Registered(k).index = k - 1)
    /\ [][TurnKeepsIndexes]_vars

\* a second collect, on a list that was not empty, has merged the corners of
\* several blocks and duplicated slave vertices: two vertices of the list are in
\* the same spot
C20_DuplicateKeepsOwnIndex ==
    /\ runs = 2
    /\ Len(blocks) >= 2
    /\ lastrun.before > 0
    /\ lastrun.after > lastrun.merged
    /\ \E j, k \in 1..Len(vertices) :
        j # k /\ Registered(j).pos = Registered(k).pos

----------------------------------------------------------------------------
(* Operation: side edges and patches *)

\* a patch name that was not set (None)
Unnamed == ""

PatchNames == {"inlet", "walls"}

\* constants.SIDES_MAP: the side of the operation at each bottom corner
SIDES_MAP == <<"front", "right", "back", "left">>

\* what a caller can pass as a side: the 6 orients and a word that is none
Orients == {"bottom", "top", "front", "right", "back", "left", "middle"}

EdgeKinds == {"Line", "Arc"}

\* Operation(bottom_face, top_face), and what later calls made of it
Operations ==
    [class : {"Operation"},
     bottom_patch : {Unnamed, "inlet"},
     top_patch : {Unnamed, "inlet"},
     side_patches : [1..4 -> {Unnamed, "inlet"}],
     side_edges : [1..4 -> EdgeKinds]]

\* the outcome of a method: the object as the call left it, and its result
Outcome(self, result) == [self |-> self, result |-> result]

add_side_edge(self, corner_idx, edge_data) ==
    IF corner_idx < 0 \/ corner_idx > 3
    THEN Outcome(self, Raise("EdgeCreationError"))
    ELSE Outcome([self EXCEPT !.side_edges[corner_idx + 1] = edge_data], Return(None))

get_index_from_side(side) ==
    IF \A k \in 1..Len(SIDES_MAP) : SIDES_MAP[k] # side
    THEN Raise("RuntimeError")
    ELSE Return((CHOOSE k \in 1..Len(SIDES_MAP) : SIDES_MAP[k] = side) - 1)

RECURSIVE SetPatchFrom(_, _, _, _)
SetPatchFrom(self, sides, name, k) ==
    IF k > Len(sides) THEN Outcome(self, Return(None))
    ELSE IF sides[k] = "bottom"
    THEN SetPatchFrom([self EXCEPT !.bottom_patch = name], sides, name, k + 1)
    ELSE IF sides[k] = "top"
    THEN SetPatchFrom([self EXCEPT !.top_patch = name], sides, name, k + 1)
    ELSE LET index == get_index_from_side(sides[k])
         IN  IF index.raised # "" THEN Outcome(self, index)
             ELSE SetPatchFrom([self EXCEPT !.side_patches[index.value + 1] = name],
                               sides, name, k + 1)

\* sides is the list given, or the list made of the one side given
set_patch(self, sides, name) == SetPatchFrom(self, sides, name, 1)

SideLists == UNION {[1..n -> Orients] : n \in 0..MaxSides}

----------------------------------------------------------------------------
(* Operation: an operation is made and set up, then one call is made on it *)

InitOperation ==
    /\ AssemblyUnused
    /\ OptimizerUnused
    /\ policy = NoPolicy
    /\ the_block = NoBlock
    /\ answer = NoAnswer
    /\ operation \in Operations
    /\ data = NoData

AddSideEdge ==
    /\ answer = NoAnswer
    /\ operation # NoOperation
    /\ \E corner_idx \in (0 - 2)..5, edge_data \in EdgeKinds :
        \E out \in {add_side_edge(operation, corner_idx, edge_data)} :
            /\ operation' = out.self
            /\ answer' = [op |-> "Operation.add_side_edge", corner_idx |-> corner_idx,
                          edge_data |-> edge_data, before |-> operation,
                          result |-> out.result]
    /\ UNCHANGED <<policy, the_block, data, avars, ovars>>

SetPatch ==
    /\ answer = NoAnswer
    /\ operation # NoOperation
    /\ \E sides \in SideLists, name \in PatchNames :
        \E out \in {set_patch(operation, sides, name)} :
            /\ operation' = out.self
            /\ answer' = [op |-> "Operation.set_patch", sides |-> sides, name |-> name,
                          before |-> operation, result |-> out.result]
    /\ UNCHANGED <<policy, the_block, data, avars, ovars>>

NextOperation == AddSideEdge \/ SetPatch

SpecOperation == InitOperation /\ [][NextOperation]_vars

----------------------------------------------------------------------------
(* Operation: properties *)

\* C21: a call on an Operation that raises commits nothing: add_side_edge with a
\* corner index outside 0..3 raises EdgeCreationError and leaves side_edges as
\* they were; set_patch with a list of sides one of which is no side orientation
\* raises and leaves the bottom and top patch names and side_patches as they
\* were before the call.
C21_RaisingCallCommitsNothing ==
    /\ answer.op = "Operation.add_side_edge" =>
        /\ answer.corner_idx \notin 0..3 =>
            /\ answer.result = Raise("EdgeCreationError")
            /\ operation.side_edges = answer.before.side_edges
        /\ answer.result.raised # "" => operation = answer.before
    /\ answer.op = "Operation.set_patch" =>
        /\ (\E k \in 1..Len(answer.sides) : answer.sides[k] = "middle") =>
            answer.result.raised # ""
        /\ answer.result.raised # "" =>
            /\ operation.bottom_patch = answer.before.bottom_patch
            /\ operation.top_patch = answer.before.top_patch
            /\ operation.side_patches = answer.before.side_patches

----------------------------------------------------------------------------
(* Face and LoftedShape: construction *)

Sub3(a, b) == <<a[1] - b[1], a[2] - b[2], a[3] - b[3]>>

Dot3(a, b) == a[1] * b[1] + a[2] * b[2] + a[3] * b[3]

Cross3(a, b) ==
    <<a[2] * b[3] - a[3] * b[2], a[3] * b[1] - a[1] * b[3], a[1] * b[2] - a[2] * b[1]>>

\* the unit square of the tests, its last corner lifted by lift, as a list of
\* count points (the fifth repeats the first) of dim coordinates each
SquarePoints(count, dim, lift) ==
    LET square == << <<0, 0, 0>>, <<1, 0, 0>>, <<1, 1, 0>>, <<0, 1, lift>>, <<0, 0, 0>> >>
    IN  [k \in 1..count |-> SubSeq(square[k], 1, dim)]

PointLists == {SquarePoints(count, dim, lift) : count \in 3..5, dim \in 2..3, lift \in 0..1}

\* the edges argument: None, or a list of 3 to 5 edges, each None (a line) or an arc
NoEdge == "None"

EdgeLists == {<<>>} \cup UNION {[1..n -> {NoEdge, "Arc"}] : n \in 3..5}

\* np.shape(points) == (4, 3)
IsFourByThree(points) == Len(points) = 4 /\ \A k \in 1..4 : Len(points[k]) = 3

\* the 4 points lie in one plane
Coplanar(points) ==
    Dot3(Sub3(points[2], points[1]),
         Cross3(Sub3(points[4], points[1]), Sub3(points[3], points[1]))) = 0

\* Face.add_edge(corner, edge_data): None puts the straight line back
Face_add_edge(self, corner, edge_data) ==
    IF corner < 0 \/ corner > 3 THEN Raise("FaceCreationError")
    ELSE Return([self EXCEPT !.edges[corner + 1] =
                    IF edge_data = NoEdge THEN "Line" ELSE edge_data])

\* Face(points, edges, check_coplanar); edges = <<>> stands for no edges given
Face(points, edges, given, check_coplanar) ==
    IF ~IsFourByThree(points) THEN Raise("FaceCreationError")
    ELSE IF given /\ Len(edges) # 4 THEN Raise("FaceCreationError")
    ELSE IF check_coplanar /\ ~Coplanar(points) THEN Raise("FaceCreationError")
    ELSE Return([points |-> points,
                 edges |-> [k \in 1..4 |->
                                IF given /\ edges[k] # NoEdge THEN edges[k] ELSE "Line"]])

\* a sketch, as far as LoftedShape.__init__ looks at it first: len(sketch.faces)
Sketches == 1..MaxFaces

LoftedShape_unchecked_mid(sketch_1, sketch_2, sketch_mid) ==
    IF sketch_1 # sketch_2 THEN Raise("ShapeCreationError")
    ELSE Return([sketch_1 |-> sketch_1, sketch_2 |-> sketch_2, sketch_mid |-> sketch_mid])

\* LoftedShape(sketch_1, sketch_2, sketch_mid), sketches of matching grids
LoftedShape(sketch_1, sketch_2, sketch_mid) ==
    IF sketch_1 # sketch_2 THEN Raise("ShapeCreationError")
    ELSE IF sketch_mid # None /\ sketch_mid # sketch_1 THEN Raise("ShapeCreationError")
    ELSE Return([sketch_1 |-> sketch_1, sketch_2 |-> sketch_2, sketch_mid |-> sketch_mid])

----------------------------------------------------------------------------
(* Edge definitions: define/edge.py, as the tests and the fixture use them.     *)
(* Coordinates are in tenths: the test's [0.5, 0.2, 0] is <<5, 2, 0>>.          *)

\* the bottom corners of the test block, by local index 0..3
EdgeCorner == << <<0, 0, 0>>, <<10, 0, 0>>, <<10, 10, 0>>, <<0, 10, 0>> >>

\* control points given to an edge: one point makes an arc, several a spline
ControlPoints ==
    { << <<5, 0, 0>> >>, << <<5, 2, 0>> >>, << <<15, 0, 0>> >>, << <<0, 5, 0>> >>,
      << <<5, 0 - 1, 10>> >>, << <<3, 0, 0>>, <<7, 0, 0>> >>,
      << <<11, 2, 0>>, <<10, 5, 0>>, <<11, 7, 0>> >> }

\* a, b, c lie on one line
Collinear(a, b, c) == Cross3(Sub3(b, a), Sub3(c, a)) = <<0, 0, 0>>

\* Edge(index_1, index_2, points, kind), its vertices set; kind None is read from
\* the shape of points
define_Edge(index_1, index_2, points, kind) ==
    [index_1 |-> index_1, index_2 |-> index_2, points |-> points,
     kind |-> IF kind # NoEdge THEN kind
              ELSE IF Len(points) = 1 THEN "arc" ELSE "spline",
     vertex_1 |-> EdgeCorner[index_1 + 1], vertex_2 |-> EdgeCorner[index_2 + 1]]

is_valid_any_kind(self) ==
    \A k \in 1..Len(self.points) :
        ~Collinear(self.vertex_1, self.points[k], self.vertex_2)

\* Edge.is_valid: only arcs are checked
is_valid(self) ==
    IF self.kind = "arc"
    THEN ~Collinear(self.vertex_1, self.points[1], self.vertex_2)
    ELSE TRUE

\* the edges of a block definition: the fixture's [index_1, index_2, kind, points]
EdgeDefs ==
    {<<c[1], c[2], NoEdge, points>> :
        c \in {<<0, 1>>, <<3, 0>>, <<1, 2>>}, points \in ControlPoints}

\* the edges a block keeps of those it is given, from the k-th on: an invalid
\* one is dropped
RECURSIVE KeptEdgesFrom(_, _)
KeptEdgesFrom(defs, k) ==
    IF k > Len(defs) THEN <<>>
    ELSE LET edge == define_Edge(defs[k][1], defs[k][2], defs[k][4], defs[k][3])
         IN  (IF is_valid(edge) THEN <<edge>> ELSE <<>>) \o KeptEdgesFrom(defs, k + 1)

Block_edges(defs) == KeptEdgesFrom(defs, 1)

(* Construction: one object is made, or one edge is put on a face *)

InitConstruct ==
    /\ AssemblyUnused
    /\ OptimizerUnused
    /\ GradingUnused

MakeFace ==
    /\ answer = NoAnswer
    /\ \E points \in PointLists, edges \in EdgeLists, check_coplanar \in BOOLEAN :
        answer' = [op |-> "Face", points |-> points, edges |-> edges,
                   check_coplanar |-> check_coplanar,
                   result |-> Face(points, edges, edges # <<>>, check_coplanar)]
    /\ UNCHANGED <<policy, the_block, operation, data, avars, ovars>>

FaceAddEdge ==
    /\ answer = NoAnswer
    /\ \E edges \in [1..4 -> {NoEdge, "Arc"}], corner \in (0 - 2)..5,
          edge_data \in {NoEdge, "Arc", "Project"} :
        \E face \in {Face(SquarePoints(4, 3, 0), edges, TRUE, FALSE).value} :
            answer' = [op |-> "Face.add_edge", face |-> face, corner |-> corner,
                       edge_data |-> edge_data,
                       result |-> Face_add_edge(face, corner, edge_data)]
    /\ UNCHANGED <<policy, the_block, operation, data, avars, ovars>>

MakeLoftedShape ==
    /\ answer = NoAnswer
    /\ \E sketch_1 \in Sketches, sketch_2 \in Sketches, sketch_mid \in Sketches \cup {None} :
        answer' = [op |-> "LoftedShape", sketch_1 |-> sketch_1, sketch_2 |-> sketch_2,
                   sketch_mid |-> sketch_mid,
                   result |-> LoftedShape(sketch_1, sketch_2, sketch_mid)]
    /\ UNCHANGED <<policy, the_block, operation, data, avars, ovars>>

MakeEdge ==
    /\ answer = NoAnswer
    /\ \E index_1 \in 0..3, index_2 \in 0..3, points \in ControlPoints,
          kind \in {NoEdge, "arc", "spline"} :
        /\ index_1 # index_2
        /\ kind = "arc" => Len(points) = 1
        /\ \E edge \in {define_Edge(index_1, index_2, points, kind)} :
            answer' = [op |-> "Edge", edge |-> edge, result |-> is_valid(edge)]
    /\ UNCHANGED <<policy, the_block, operation, data, avars, ovars>>

BlockEdges ==
    /\ answer = NoAnswer
    /\ \E defs \in UNION {[1..n -> EdgeDefs] : n \in 0..MaxDefs} :
        answer' = [op |-> "Block.edges", defs |-> defs, result |-> Block_edges(defs)]
    /\ UNCHANGED <<policy, the_block, operation, data, avars, ovars>>

NextConstruct == MakeFace \/ FaceAddEdge \/ MakeLoftedShape \/ MakeEdge \/ BlockEdges

SpecConstruct == InitConstruct /\ [][NextConstruct]_vars

----------------------------------------------------------------------------
(* Construction: properties *)

\* C22: construction from malformed input raises and makes no object: a Face from
\* a number of points other than 4, from points that are not 3-dimensional, from
\* an edge list whose length is not 4, or, with check_coplanar, from points not
\* in one plane raises FaceCreationError, as does add_edge with a corner outside
\* 0..3; a LoftedShape from sketches with different numbers of faces (start and
\* end, or mid and start) raises ShapeCreationError; from well-formed input the
\* object is made.
C22_MalformedInputRaises ==
    /\ answer.op = "Face" =>
        answer.result.raised =
            IF \/ Len(answer.points) # 4
               \/ \E k \in 1..Len(answer.points) : Len(answer.points[k]) # 3
               \/ (answer.edges # <<>> /\ Len(answer.edges) # 4)
               \/ (answer.check_coplanar /\ answer.points[4][3] # 0)
            THEN "FaceCreationError" ELSE ""
    /\ answer.op = "Face.add_edge" =>
        answer.result.raised =
            IF answer.corner \in 0..3 THEN "" ELSE "FaceCreationError"
    /\ answer.op = "LoftedShape" =>
        answer.result.raised =
            IF \/ answer.sketch_1 # answer.sketch_2
               \/ (answer.sketch_mid # None /\ answer.sketch_mid # answer.sketch_1)
            THEN "ShapeCreationError" ELSE ""

\* a shape was refused for its mid sketch alone
C22_MidSketchRefused ==
    /\ answer.op = "LoftedShape"
    /\ answer.sketch_1 = answer.sketch_2
    /\ answer.sketch_mid # None
    /\ answer.sketch_mid # answer.sketch_1
    /\ answer.result = Raise("ShapeCreationError")

----------------------------------------------------------------------------
(* Automatic grading: undefined sizes *)

\* C25: HighReChopParams.define_sizes raises RuntimeError whenever size_before or
\* size_after is 0; otherwise, on a cramped wire (cell_size * count > length), it
\* returns length / count for both ends whatever sizes the neighbours have;
\* get_chops at stage 0 does not call it, so the uniform pass returns its chops
\* also next to a wire of size 0.
C25_UndefinedSizesRaise ==
    /\ answer.op = "HighReChopParams.define_sizes" =>
        IF answer.size_before = 0 \/ answer.size_after = 0
        THEN answer.result = Raise("RuntimeError")
        ELSE policy.cell_size * answer.count > answer.length =>
                answer.result = Return(<<Frac(answer.length, answer.count),
                                         Frac(answer.length, answer.count)>>)
    /\ (answer.op = "HighReChopParams.get_chops" /\ answer.stage = 0) =>
        /\ answer.result.raised = ""
        /\ Len(answer.result.value) = 2

\* the uniform pass went through next to a wire whose size is not defined yet
C25_UniformPassNextToUndefined ==
    /\ answer.op = "HighReChopParams.get_chops"
    /\ answer.stage = 0
    /\ answer.size_before = 0
    /\ answer.count >= 2
    /\ answer.result.raised = ""

----------------------------------------------------------------------------
(* Automatic grading: squeezed wires *)

\* the stack get_count and is_squeezed build for the wire: over half the
\* length when both ends are at a wall
WireStack(self, info) ==
    InflationRules_get_stack(self,
        IF info.starts_at_wall /\ info.ends_at_wall
        THEN Frac(info.length, 2) ELSE FInt(info.length),
        info.size_after)

\* C29: InflationRules.is_squeezed agrees with InflationRules.get_count: for a
\* wire at a wall with no size_after, is_squeezed(count, info) with count =
\* get_count(info.length, info.starts_at_wall, info.ends_at_wall) is False
\* whenever the stack built for the wire has all three layers, with one end at a
\* wall and with both.
C29_OwnCountNotSqueezed ==
    ( /\ answer.op = "InflationRules.is_squeezed"
      /\ answer.info.size_after = None
      /\ answer.count = InflationRules_get_count(policy, answer.info.length,
                            answer.info.starts_at_wall, answer.info.ends_at_wall)
      /\ Len(WireStack(policy, answer.info).layers) = 3 )
    => answer.result = FALSE

----------------------------------------------------------------------------
(* Optimizer: rollback *)

\* a turn of optimize_iteration that ended in a rollback left every vertex where
\* it was when optimize_clamp was entered
TurnRollbackRestores ==
    ( /\ pc = "iter"
      /\ queue # <<>>
      /\ queue' = Tail(queue)
      /\ HasClamp(clamps, Head(queue))
      /\ last'.kind = "rollback" )
    => /\ position' = position
       /\ params' = params
       /\ GridQuality(position', goal) = last'.initial_quality

----------------------------------------------------------------------------
(* Optimizer: returning *)

\* C27: Optimizer.optimize() returns normally for every mesh and every set of
\* clamps, also when the first iteration improves nothing (no clamp, or a mesh
\* that is as good as it gets): evaluating IterationDriver.converged never
\* divides by zero, and a run that was given relaxed iterations never ends in an
\* error.
C27_ReturnsNormally ==
    /\ pc = "loop" => "raise" \notin converged(iterations, driver)
    /\ (Running /\ driver.relaxed_iterations >= 1) => pc # "error"

----------------------------------------------------------------------------
(* Assembly: orphans *)

\* C28: after VertexList.collect, with or without merged patches, every vertex of
\* the vertex list is a corner of at least one block: the merged patches pass
\* leaves no original vertex behind that no block uses any more.
C28_EveryVertexUsed ==
    Assembled =>
        \A k \in 1..Len(vertices) :
            \E b \in 1..Len(bv), i \in 1..8 : bv[b][i] = vertices[k]

(***************************************************************************)
(* Block construction: items/block.py __init__ and _generate_gradings      *)
(*                                                                         *)
(* BlockData.chops holds, per axis, the list of keyword dictionaries the   *)
(* user passed to chop(); a dictionary is a function from its keys.        *)
(***************************************************************************)

\* dict.pop(key, default): the value and the dictionary that is left
dict_pop(d, key, default) ==
    IF key \in DOMAIN d
    THEN [value |-> d[key], dict |-> [k \in (DOMAIN d) \ {key} |-> d[k]]]
    ELSE [value |-> default, dict |-> d]

\* the first chop of an axis: with or without the 'take' keyword
FirstChops ==
    {[count |-> 1]} \cup {[take |-> t, count |-> 1] : t \in {"min", "max", "avg"}}

\* the chops of one axis: none, or a first chop followed by plain ones
AxisChops ==
    {<<>>} \cup
    {[k \in 1..n |-> IF k = 1 THEN chop ELSE [count |-> k]] :
        chop \in FirstChops, n \in 1..MaxChops}

BlockDatas == {[chops |-> <<c0, c1, c2>>] : c0 \in AxisChops, c1 \in AxisChops, c2 \in AxisChops}

\* Grading(): no block size, no divisions
EmptyGrading == [block_size |-> None, divisions |-> <<>>]

\* one pass of the loop of Block._generate_gradings: the Grading of axis i and
\* the list params (data.chops[i]) as the pass leaves it
GradingOfAxis(self, chops_i, i) ==
    IF Len(chops_i) < 1
    THEN [grading |-> EmptyGrading, chops_i |-> chops_i]
    ELSE LET popped == dict_pop(chops_i[1], "take", "avg")
             left   == [chops_i EXCEPT ![1] = popped.dict]
         IN  [grading |-> [block_size |-> get_size(self, i, popped.value).value,
                           divisions  |-> left],
              chops_i |-> left]

\* Block._generate_gradings: the three gradings, and data as the call leaves it
\* (params is data.chops[i] itself, not a copy)
_generate_gradings(self, d) ==
    LET pass == [i \in 1..3 |-> GradingOfAxis(self, d.chops[i], i - 1)]
    IN  [gradings |-> [i \in 1..3 |-> pass[i].grading],
         data     |-> [d EXCEPT !.chops = [i \in 1..3 |-> pass[i].chops_i]]]

\* the blocks built here: every vertex list, no curved edges
InitBuild ==
    /\ AssemblyUnused
    /\ OptimizerUnused
    /\ policy = NoPolicy
    /\ the_block \in {b \in Blocks : b.edges = <<>>}
    /\ answer = [op |-> "Block", given |-> <<>>, gradings |-> <<>>]
    /\ operation = NoOperation
    /\ data \in BlockDatas

\* Block(data, index, vertices, edges), from the same BlockData object each time
MakeBlock ==
    /\ answer.op = "Block"
    /\ Len(answer.gradings) < MaxBuilds
    /\ \E built \in {_generate_gradings(the_block, data)} :
        /\ answer' = [answer EXCEPT !.given = Append(@, data),
                                    !.gradings = Append(@, built.gradings)]
        /\ data' = built.data
    /\ UNCHANGED <<policy, the_block, operation, avars, ovars>>

NextBuild == MakeBlock

SpecBuild == InitBuild /\ [][NextBuild]_vars

(***************************************************************************)
(* Block construction: properties                                          *)
(***************************************************************************)

\* C30: building a Block leaves data.chops as it was, a second Block built
\* from the same data gets the gradings of the first (the same 'take'), and an
\* axis without chops gets an empty Grading
C30_BuildLeavesChopsAlone ==
    /\ [][data'.chops = data.chops]_vars
    /\ [](\A n \in 1..Len(answer.gradings) :
            /\ answer.gradings[n] = answer.gradings[1]
            /\ \A i \in 1..3 :
                 answer.given[1].chops[i] = <<>> => answer.gradings[n][i] = EmptyGrading)

\* p = a + (n/d) (b - a) for some ratio n/d: p lies on the line of the chord a-b
OnChordLine(p, a, b) ==
    \E n \in (0 - 4)..4, d \in 1..2 :
        \A i \in 1..3 : d * (p[i] - a[i]) = n * (b[i] - a[i])

\* an edge definition is an arc whose control point lies on the line of its chord
DegenerateArc(def) ==
    /\ Len(def[4]) = 1
    /\ OnChordLine(def[4][1], EdgeCorner[def[1] + 1], EdgeCorner[def[2] + 1])

\* C24: an arc whose control point is collinear with its chord is not valid and
\* a block drops it (the edge is then a straight line); an arc with any other
\* control point is valid and kept; a spline is valid whatever its points
C24_DegenerateArcDropped ==
    /\ answer.op = "Edge" =>
        answer.result =
            ~( /\ answer.edge.kind = "arc"
               /\ OnChordLine(answer.edge.points[1], answer.edge.vertex_1,
                              answer.edge.vertex_2) )
    /\ answer.op = "Block.edges" =>
        /\ \A k \in 1..Len(answer.result) : answer.result[k].kind \in {"arc", "spline"}
        /\ \A k \in 1..Len(answer.result) :
             answer.result[k].kind = "arc" =>
                ~OnChordLine(answer.result[k].points[1], answer.result[k].vertex_1,
                             answer.result[k].vertex_2)
        /\ Len(answer.result) =
             Cardinality({k \in 1..Len(answer.defs) : ~DegenerateArc(answer.defs[k])})
        /\ \A k \in 1..Len(answer.defs) :
             ~DegenerateArc(answer.defs[k]) =>
                \E j \in 1..Len(answer.result) :
                    /\ answer.result[j].index_1 = answer.defs[k][1]
                    /\ answer.result[j].index_2 = answer.defs[k][2]
                    /\ answer.result[j].points = answer.defs[k][4]

\* the fixture's second block: a collinear arc on 0-1 is dropped, the spline given
\* with it, collinear points and all, is kept
C24_CollinearArcGone ==
    /\ answer.op = "Block.edges"
    /\ Len(answer.defs) = 2
    /\ answer.defs[1] = <<0, 1, NoEdge, << <<5, 0, 0>> >> >>
    /\ answer.defs[2] = <<0, 1, NoEdge, << <<3, 0, 0>>, <<7, 0, 0>> >> >>
    /\ Len(answer.result) = 1
    /\ answer.result[1].kind = "spline"

(***************************************************************************)
(* Transforms: Point and Face translate / rotate / scale                   *)
(*                                                                         *)
(* Coordinates are floating-point numbers.  A float is modelled as the     *)
(* exact rational it stands for, with MantissaBits significant bits, and   *)
(* every arithmetic operation rounds its exact result to the nearest float *)
(* (ties to the even mantissa), as IEEE 754 arithmetic does.               *)
(***************************************************************************)

FAbs(a) == <<Abs(a[1]), a[2]>>

FNeg(a) == <<0 - a[1], a[2]>>

\* 2^e as a rational, e of either sign
Pow2(e) == IF e >= 0 THEN <<2 ^ e, 1>> ELSE <<1, 2 ^ (0 - e)>>


\* the exponent of a rational a/d: 2^(MantissaBits-1) <= (a/d) / 2^e < 2^MantissaBits
RECURSIVE ExponentUp(_, _, _)
ExponentUp(a, d, e) ==
    IF a < (2 ^ MantissaBits) * (2 ^ e) * d THEN e ELSE ExponentUp(a, d, e + 1)

RECURSIVE ExponentDown(_, _, _)
ExponentDown(a, d, e) ==
    IF a * (2 ^ e) >= (2 ^ (MantissaBits - 1)) * d THEN 0 - e
    ELSE ExponentDown(a, d, e + 1)

ExponentOf(x) ==
    IF Abs(x[1]) >= (2 ^ (MantissaBits - 1)) * x[2]
    THEN ExponentUp(Abs(x[1]), x[2], 0)
    ELSE ExponentDown(Abs(x[1]), x[2], 1)

\* the float next to the rational x towards zero
fl_truncated(x) ==
    IF x[1] = 0 THEN <<0, 1>>
    ELSE LET e == ExponentOf(x)
             q == FDiv(FAbs(x), Pow2(e))
             m == q[1] \div q[2]
         IN  FMul(FInt(IF x[1] < 0 THEN 0 - m ELSE m), Pow2(e))

\* the float nearest to the rational x, ties to even
fl(x) ==
    IF x[1] = 0 THEN <<0, 1>>
    ELSE LET e    == ExponentOf(x)
             q    == FDiv(FAbs(x), Pow2(e))
             m    == q[1] \div q[2]
             r    == q[1] % q[2]
             up   == 2 * r > q[2] \/ (2 * r = q[2] /\ m % 2 = 1)
             mant == IF up THEN m + 1 ELSE m
         IN  FMul(FInt(IF x[1] < 0 THEN 0 - mant ELSE mant), Pow2(e))

fadd(a, b) == fl(FAdd(a, b))
fsub(a, b) == fl(FSub(a, b))
fmul(a, b) == fl(FMul(a, b))

\* numpy array arithmetic on 3-vectors
vadd(a, b) == [i \in 1..3 |-> fadd(a[i], b[i])]
vsub(a, b) == [i \in 1..3 |-> fsub(a[i], b[i])]
vmul(a, k) == [i \in 1..3 |-> fmul(a[i], k)]

\* Point.translate(displacement)
translate(pos, displacement) == vadd(pos, displacement)

\* Point.scale(ratio, origin)
scale(pos, ratio, origin) == vadd(origin, vmul(vsub(pos, origin), ratio))

\* Point.rotate(angle, axis, origin) about the z axis; the angle is given by the
\* floats cos(angle) and sin(angle)
rotate(pos, angle, origin) ==
    LET d == vsub(pos, origin)
    IN  vadd(origin,
             << fsub(fmul(angle.cos, d[1]), fmul(angle.sin, d[2])),
                fadd(fmul(angle.sin, d[1]), fmul(angle.cos, d[2])),
                d[3] >>)

\* a transform and the one that undoes it, as the caller writes them
Inverse(t) ==
    IF t.kind = "translate"
    THEN [t EXCEPT !.displacement = [i \in 1..3 |-> FNeg(t.displacement[i])]]
    ELSE IF t.kind = "rotate"
    THEN [t EXCEPT !.angle = [cos |-> t.angle.cos, sin |-> FNeg(t.angle.sin)]]
    ELSE [t EXCEPT !.ratio = fl(FDiv(FInt(1), t.ratio))]

Apply(t, pos) ==
    IF t.kind = "translate" THEN translate(pos, t.displacement)
    ELSE IF t.kind = "rotate" THEN rotate(pos, t.angle, t.origin)
    ELSE scale(pos, t.ratio, t.origin)

\* Point.transform / Face.transform: every point, and the control point of
\* every arc edge, is transformed
Transformed(entity, t) == [k \in 1..Len(entity) |-> Apply(t, entity[k])]

\* a 3-vector of floats from integers in quarters
Quarters(x, y, z) == <<Frac(x, 4), Frac(y, 4), Frac(z, 4)>>

\* the points of the tests, and the face of test_translate_face: the unit square
\* and the control point of its arc edge
Entities ==
    { <<Quarters(0, 0, 0)>>, <<Quarters(4, 0, 0)>>, <<Quarters(4, 4, 0)>>,
      <<Quarters(2, 0 - 1, 0)>>, <<Quarters(12, 20, 28)>>,
      <<Quarters(0, 0, 0), Quarters(4, 0, 0), Quarters(4, 4, 0), Quarters(0, 4, 0),
        Quarters(2, 0 - 1, 0)>> }

\* vector components: nothing, the tests' 1, and a float as large as the mantissa
Components == {FInt(0), FInt(1), FInt(0 - 1), FInt(2 ^ MantissaBits)}

Displacements == {<<x, y, z>> : x \in Components, y \in Components, z \in {FInt(0), FInt(1)}}

Origins == {Quarters(0, 0, 0), Quarters(4, 4, 4)}

Ratios == {FInt(2), FInt(3), Frac(1, 2), FInt(5)}

\* cos and sin of a quarter turn (cos(pi/2) is a tiny float, not zero) and of
\* atan(4/3)
Angles ==
    { [cos |-> Pow2(0 - (MantissaBits + 1)), sin |-> FInt(1)],
      [cos |-> fl(Frac(3, 5)), sin |-> fl(Frac(4, 5))] }

Transforms ==
    {[kind |-> "translate", displacement |-> v] : v \in Displacements}
    \cup {[kind |-> "rotate", angle |-> a, origin |-> o] : a \in Angles, o \in Origins}
    \cup {[kind |-> "scale", ratio |-> k, origin |-> o] : k \in Ratios, o \in Origins}

InitTransform ==
    /\ AssemblyUnused
    /\ OptimizerUnused
    /\ policy = NoPolicy
    /\ the_block = NoBlock
    /\ ConstructUnused
    /\ answer \in {[op |-> "entity", original |-> e, mid |-> e, now |-> e, steps |-> <<>>] :
                        e \in Entities}

Forward(kind) ==
    /\ answer.op = "entity"
    /\ answer.steps = <<>>
    /\ \E t \in {u \in Transforms : u.kind = kind} :
        \E moved \in {Transformed(answer.now, t)} :
            answer' = [answer EXCEPT !.mid = moved, !.now = moved, !.steps = <<t>>]
    /\ UNCHANGED <<policy, the_block, operation, data, avars, ovars>>

Translate == Forward("translate")

Rotate == Forward("rotate")

Scale == Forward("scale")

\* the transform that undoes the last one
Back ==
    /\ answer.op = "entity"
    /\ Len(answer.steps) = 1
    /\ \E t \in {Inverse(answer.steps[1])} :
        answer' = [answer EXCEPT !.now = Transformed(@, t),
                                 !.steps = Append(@, t)]
    /\ UNCHANGED <<policy, the_block, operation, data, avars, ovars>>

NextTransform == Translate \/ Rotate \/ Scale \/ Back

SpecTransform == InitTransform /\ [][NextTransform]_vars

----------------------------------------------------------------------------
(* Transforms: properties *)

RoundTrip == answer.op = "entity" /\ Len(answer.steps) = 2

\* the largest absolute value among the coordinates of the given positions
RECURSIVE FMaxAbs(_, _)
FMaxAbs(entity, k) ==
    IF k > Len(entity) THEN <<0, 1>>
    ELSE LET rest == FMaxAbs(entity, k + 1)
             a == FAbs(entity[k][1])
             b == FAbs(entity[k][2])
             c == FAbs(entity[k][3])
             ab == IF FLess(a, b) THEN b ELSE a
             abc == IF FLess(ab, c) THEN c ELSE ab
         IN  IF FLess(abc, rest) THEN rest ELSE abc

\* the largest coordinate met on a round trip: of the entity before, between and
\* after the two transforms, and of the transform's vector or origin
Magnitude ==
    LET t == answer.steps[1]
        given == IF t.kind = "translate" THEN <<t.displacement>> ELSE <<t.origin>>
    IN  FMaxAbs(answer.original \o answer.mid \o answer.now \o given, 1)

\* the largest difference between a coordinate now and what it was
Deviation ==
    FMaxAbs([k \in 1..Len(answer.now) |->
                [i \in 1..3 |-> FSub(answer.now[k][i], answer.original[k][i])]], 1)

WithinUnits(units) ==
    FLeq(FMul(Deviation, FInt(2 ^ MantissaBits)), FMul(FInt(units), Magnitude))

\* the vector of the round trip has only small components, as in the tests
SmallDisplacement ==
    /\ answer.steps[1].kind = "translate"
    /\ \A i \in 1..3 : FLeq(FAbs(answer.steps[1].displacement[i]), FInt(1))

====
